---- MODULE Spec2Model ----
(***************************************************************************)
(* Model of dreamup-ai/image-service: the storage-key codec of crud.ts,    *)
(* the transform decision of routes/image.ts (coerceToRequested) and the   *)
(* request handlers GET /image/:id.:ext, GET /image?url=, POST /image and  *)
(* DELETE /image/:id over an object store (bucket) and a metadata table    *)
(* (cache), with the paging of listImagesForUser.  The url index of the    *)
(* table is read consistently.  A request is in flight from                *)
(* its arrival until its handler has returned, which for a read that       *)
(* derives a rendition is after the upload that follows the response.      *)
(*                                                                         *)
(* Strings are TLC strings; Len, \o, SubSeq and Tail act on them by        *)
(* character. JS values are tagged records, a JS object is the sequence    *)
(* of its entries in insertion order.                                      *)
(***************************************************************************)
EXTENDS Integers, Sequences, FiniteSets, TLC

(***************************************************************************)
(* JS strings                                                              *)
(***************************************************************************)
CharAt(s, i) == SubSeq(s, i, i)

StartsWith(s, p) == Len(p) <= Len(s) /\ SubSeq(s, 1, Len(p)) = p

EndsWith(s, p) == Len(p) <= Len(s) /\ SubSeq(s, Len(s) - Len(p) + 1, Len(s)) = p

\* position of the first occurrence of the character c in s at or after i, 0 if none
LeastOf(at) == IF at = {} THEN 0 ELSE CHOOSE j \in at : \A k \in at : j <= k
IndexFrom(s, c, i) == LeastOf({j \in i..Len(s) : CharAt(s, j) = c})

\* String.prototype.split(c) for a one-character separator
RECURSIVE Split(_, _)
SplitAt(s, c, i) ==
  IF i = 0 THEN <<s>>
  ELSE <<SubSeq(s, 1, i - 1)>> \o Split(SubSeq(s, i + 1, Len(s)), c)
Split(s, c) == SplitAt(s, c, IndexFrom(s, c, 1))

\* Array.prototype.join(c)
RECURSIVE Join(_, _)
Join(parts, c) ==
  IF Len(parts) = 0 THEN ""
  ELSE IF Len(parts) = 1 THEN parts[1]
  ELSE parts[1] \o c \o Join(Tail(parts), c)

\* String.prototype.replace(c, "") with a string pattern: the first occurrence only
CutAt(s, i) == IF i = 0 THEN s ELSE SubSeq(s, 1, i - 1) \o SubSeq(s, i + 1, Len(s))
ReplaceFirst(s, c) == CutAt(s, IndexFrom(s, c, 1))

\* characters in UTF-16 code unit order, as Array.prototype.sort() compares them
CodeUnits == " ()+,-./0123456789:ABCDEFGHIJKLMNOPQRSTUVWXYZ_abcdefghijklmnopqrstuvwxyz"

\* character -> its place in that order
CodeUnit == [c \in {CharAt(CodeUnits, i) : i \in 1..Len(CodeUnits)} |->
               IndexFrom(CodeUnits, c, 1)]

RECURSIVE StrLess(_, _)
StrLess(a, b) ==
  IF Len(b) = 0 THEN FALSE
  ELSE IF Len(a) = 0 THEN TRUE
  ELSE IF CharAt(a, 1) = CharAt(b, 1) THEN StrLess(Tail(a), Tail(b))
  ELSE CodeUnit[CharAt(a, 1)] < CodeUnit[CharAt(b, 1)]

IsDigit(c) == Len(c) = 1 /\ IndexFrom("0123456789", c, 1) > 0

DigitVal(c) == IndexFrom("0123456789", c, 1) - 1

IsDigits(s) == Len(s) > 0 /\ \A i \in 1..Len(s) : IsDigit(CharAt(s, i))

RECURSIVE DigitsVal(_)
DigitsVal(s) ==
  IF Len(s) = 0 THEN 0
  ELSE 10 * DigitsVal(SubSeq(s, 1, Len(s) - 1)) + DigitVal(CharAt(s, Len(s)))

(***************************************************************************)
(* JS values and objects                                                   *)
(***************************************************************************)
Undefined == [t |-> "undefined"]
Num(n) == [t |-> "number", v |-> n]
Str(s) == [t |-> "string", v |-> s]
Bool(b) == [t |-> "boolean", v |-> b]

IsDefined(x) == x.t # "undefined"

\* template literal `${x}`
Fmt(x) ==
  CASE x.t = "number" -> ToString(x.v)
    [] x.t = "string" -> x.v
    [] x.t = "boolean" -> (IF x.v THEN "true" ELSE "false")
    [] OTHER -> "undefined"

\* Object.keys(o)
Keys(o) == [i \in 1..Len(o) |-> o[i].k]

HasKey(o, k) == \E i \in 1..Len(o) : o[i].k = k

\* o[k]
Get(o, k) ==
  IF HasKey(o, k) THEN o[CHOOSE i \in 1..Len(o) : o[i].k = k].v ELSE Undefined

\* { ...o, [k]: v }
Put(o, k, v) ==
  IF HasKey(o, k)
  THEN [i \in 1..Len(o) |-> IF o[i].k = k THEN [k |-> k, v |-> v] ELSE o[i]]
  ELSE Append(o, [k |-> k, v |-> v])

\* deep equality of two objects (chai deep.equal): same keys, same values
ObjEq(a, b) ==
  /\ {a[i].k : i \in 1..Len(a)} = {b[i].k : i \in 1..Len(b)}
  /\ \A i \in 1..Len(a) : Get(b, a[i].k) = a[i].v

\* Array.prototype.sort() of strings
RemoveAt(ks, m) == SubSeq(ks, 1, m - 1) \o SubSeq(ks, m + 1, Len(ks))

\* the index of the least string of ks, the first one among equals
LeastAt(ks) ==
  CHOOSE i \in 1..Len(ks) :
    \A j \in 1..Len(ks) : ~StrLess(ks[j], ks[i]) /\ (ks[j] = ks[i] => i <= j)

RECURSIVE SortStrings(_)
SortFrom(ks, m) == <<ks[m]>> \o SortStrings(RemoveAt(ks, m))
SortStrings(ks) == IF Len(ks) = 0 THEN <<>> ELSE SortFrom(ks, LeastAt(ks))

(***************************************************************************)
(* types.ts: the image parameter schema and coerceImageParams              *)
(***************************************************************************)
FitEnum == {"cover", "contain", "fill", "inside", "outside"}

PosEnum == {"top", "righttop", "right", "rightbottom", "bottom", "leftbottom", "left",
            "lefttop", "north", "northeast", "east", "southeast", "south", "southwest",
            "west", "northwest", "center", "centre", "entropy", "attention"}

KernelEnum == {"nearest", "cubic", "mitchell", "lanczos2", "lanczos3"}

\* \d{1,3}
IsColourPart(s) == Len(s) \in 1..3 /\ IsDigits(s)

\* (\d.?\d?) : a digit, then optionally any character, then optionally a digit
IsAlphaPart(s) ==
  /\ Len(s) \in 1..3
  /\ IsDigit(CharAt(s, 1))
  /\ (Len(s) = 3 => IsDigit(CharAt(s, 3)))

\* the pattern of imageResizeOptionsSchema.properties.bg
BgPattern(s) ==
  \/ /\ StartsWith(s, "rgba(") /\ EndsWith(s, ")")
     /\ LET parts == Split(SubSeq(s, 6, Len(s) - 1), ",") IN
          /\ Len(parts) = 4
          /\ \A i \in 1..3 : IsColourPart(parts[i])
          /\ IsAlphaPart(parts[4])
  \/ /\ StartsWith(s, "rgb(") /\ EndsWith(s, ")")
     /\ LET parts == Split(SubSeq(s, 5, Len(s) - 1), ",") IN
          /\ Len(parts) = 3
          /\ \A i \in 1..3 : IsColourPart(parts[i])

MinDimension == 1
MinQuality == 1
MaxQuality == 100
MinEffort == 1
MaxEffort == 6

\* the JSON type each modelled property has in imageParamsSchema ("" when the
\* schema does not name the property, as for format)
SchemaType(k) ==
  CASE k \in {"width", "height", "quality"} -> "number"
    [] k = "effort" -> "integer"
    [] k = "progressive" -> "boolean"
    [] k \in {"fit", "pos", "bg", "kernel", "chromaSubsampling"} -> "string"
    [] OTHER -> ""

\* Ajv coerceTypes: the value of property k coerced to the schema's type,
\* [ok |-> FALSE] when it cannot be
CoerceType(k, x) ==
  LET ty == SchemaType(k) IN
  CASE ty = "" -> [ok |-> TRUE, v |-> x]
    [] ty \in {"number", "integer"} ->
         IF x.t = "number" THEN [ok |-> TRUE, v |-> x]
         ELSE IF x.t = "string" /\ IsDigits(x.v) THEN [ok |-> TRUE, v |-> Num(DigitsVal(x.v))]
         ELSE [ok |-> FALSE, v |-> x]
    [] ty = "boolean" ->
         IF x.t = "boolean" THEN [ok |-> TRUE, v |-> x]
         ELSE IF x = Str("true") THEN [ok |-> TRUE, v |-> Bool(TRUE)]
         ELSE IF x = Str("false") THEN [ok |-> TRUE, v |-> Bool(FALSE)]
         ELSE [ok |-> FALSE, v |-> x]
    [] OTHER ->
         IF x.t = "string" THEN [ok |-> TRUE, v |-> x]
         ELSE IF x.t \in {"number", "boolean"} THEN [ok |-> TRUE, v |-> Str(Fmt(x))]
         ELSE [ok |-> FALSE, v |-> x]

\* minimum / maximum / enum / pattern of property k on a value of the right type
SchemaRange(k, x) ==
  CASE k \in {"width", "height"} -> x.v >= MinDimension
    [] k = "quality" -> x.v >= MinQuality /\ x.v <= MaxQuality
    [] k = "effort" -> x.v >= MinEffort /\ x.v <= MaxEffort
    [] k = "fit" -> x.v \in FitEnum
    [] k = "pos" -> x.v \in PosEnum
    [] k = "kernel" -> x.v \in KernelEnum
    [] k = "bg" -> BgPattern(x.v)
    [] OTHER -> TRUE

\* coerceImageParams(params): [ok, params], the params coerced in place.
\* A property whose value is undefined counts as absent.
Coerced(params, co) ==
  [ok |-> \A i \in 1..Len(params) :
            /\ co[i].ok
            /\ IsDefined(params[i].v) => SchemaRange(params[i].k, co[i].v),
   params |-> [i \in 1..Len(params) |->
                 [k |-> params[i].k, v |-> IF co[i].ok THEN co[i].v ELSE params[i].v]]]

coerceImageParams(params) ==
  Coerced(params,
          [i \in 1..Len(params) |->
             IF IsDefined(params[i].v) THEN CoerceType(params[i].k, params[i].v)
             ELSE [ok |-> TRUE, v |-> params[i].v]])

(***************************************************************************)
(* crud.ts: the storage-key codec                                          *)
(***************************************************************************)
\* config.bucket.prefix (IMAGE_BUCKET_PREFIX, "" by default)
BucketPrefix == ""

NotFormat(k) == k # "format"

\* the `${k}:${params[k]}` items of the keys ks, joined by "-"
ParamString(params, ks) ==
  Join([i \in 1..Len(ks) |-> ks[i] \o ":" \o Fmt(Get(params, ks[i]))], "-")

\* a variant that takes the properties in their insertion order
unsortedFilenameForImage(id, params) ==
  id \o "_"
     \o ParamString(params, SelectSeq(Keys(params), NotFormat))
     \o "." \o Fmt(Get(params, "format"))

getFilenameForImage(id, params) ==
  id \o "_"
     \o ParamString(params, SortStrings(SelectSeq(Keys(params), NotFormat)))
     \o "." \o Fmt(Get(params, "format"))

getKeyForImage(user, id, params) ==
  BucketPrefix \o user \o "/" \o getFilenameForImage(id, params)

\* the reduce of getParamsFromKey over the items of the parameter string
\* const [key, value] = item.split(":"); acc[key] = value
SetItem(acc, kv) == Put(acc, kv[1], IF Len(kv) >= 2 THEN Str(kv[2]) ELSE Undefined)

RECURSIVE ReduceItems(_, _)
ReduceItems(acc, items) ==
  IF Len(items) = 0 THEN acc
  ELSE ReduceItems(SetItem(acc, Split(items[1], ":")), Tail(items))

\* the end of getParamsFromKey: coerceImageParams(params) or ImageParamsError
CoercedOrError(co) ==
  IF ~co.ok THEN [err |-> "ImageParamsError", params |-> <<>>]
  ELSE [err |-> "none", params |-> co.params]

\* const [, paramString] = everythingBeforeFormat.split("_"), then the reduce
ParamsOfPieces(format, pieces) ==
  IF Len(pieces) < 2 THEN [err |-> "TypeError", params |-> <<>>]
  ELSE CoercedOrError(coerceImageParams(
         ReduceItems(<<[k |-> "format", v |-> Str(format)]>>, Split(pieces[2], "-"))))

\* const format = keySplit.pop(); everythingBeforeFormat = keySplit.join(".")
ParamsOfSplit(keySplit) ==
  ParamsOfPieces(keySplit[Len(keySplit)],
                 Split(Join(SubSeq(keySplit, 1, Len(keySplit) - 1), "."), "_"))

\* getParamsFromKey(key): [err, params]; err is "none", "TypeError" (split of
\* undefined) or "ImageParamsError"
getParamsFromKey(key) == ParamsOfSplit(Split(key, "."))

(***************************************************************************)
(* types.ts: extensions, formats, position aliases                         *)
(***************************************************************************)
outputImageFormats == {"jpeg", "png", "webp", "tiff", "avif"}

supportedOutputImageExtensions == outputImageFormats \cup {"jpg"}

getFormatFromExtension(ext) == IF ext = "jpg" THEN "jpeg" ELSE ext

\* positionMap
positionMap ==
  [p \in {"righttop", "rightbottom", "leftbottom", "lefttop", "rt", "r", "rb", "b",
          "lb", "l", "lt", "n", "ne", "e", "se", "s", "sw", "w", "nw", "c"} |->
     CASE p \in {"righttop", "rt"} -> "right top"
       [] p \in {"rightbottom", "rb"} -> "right bottom"
       [] p \in {"leftbottom", "lb"} -> "left bottom"
       [] p \in {"lefttop", "lt"} -> "left top"
       [] p = "r" -> "right"
       [] p = "b" -> "bottom"
       [] p = "l" -> "left"
       [] p = "n" -> "north"
       [] p = "ne" -> "northeast"
       [] p = "e" -> "east"
       [] p = "se" -> "southeast"
       [] p = "s" -> "south"
       [] p = "sw" -> "southwest"
       [] p = "w" -> "west"
       [] p = "nw" -> "northwest"
       [] OTHER -> "center"]

\* a variant that leaves every name as it is
samePositionName(position) == position

getFullPositionName(position) ==
  IF position \in DOMAIN positionMap THEN positionMap[position] ELSE position

\* the properties utilsByFormat[format].clean keeps (removeAdditional: "all"),
\* among the encoder options the model's requests carry
FormatProps(format) ==
  IF format \in {"jpeg", "png"} THEN {"quality", "progressive"} ELSE {"quality"}

clean(format, formatParams) ==
  LET Known(e) == e.k \in FormatProps(format) IN SelectSeq(formatParams, Known)

(***************************************************************************)
(* sharp: an encoded image (a Buffer) is described by its source content,  *)
(* its pixel size, its container format and the operations that produced   *)
(* it from the source; a Sharp object is an input buffer with the queue of *)
(* operations toBuffer() will run.  Decoding and re-encoding a buffer with *)
(* no queued operation yields a buffer of the same description.            *)
(***************************************************************************)
NoBlob == [src |-> "", width |-> 0, height |-> 0, format |-> "", ops |-> <<>>]

sharp(buffer) == [input |-> buffer, queue |-> <<>>]

\* img.metadata(): the metadata of the input, whatever is queued
metadata(img) == img.input

\* JS truthiness
Truthy(x) ==
  CASE x.t = "undefined" -> FALSE
    [] x.t = "number" -> x.v # 0
    [] x.t = "string" -> x.v # ""
    [] OTHER -> x.v

\* a || b
Or(a, b) == IF Truthy(a) THEN a ELSE b

\* round(a / b) for positive integers
RoundDiv(a, b) == (2 * a + b) \div (2 * b)

Min2(a, b) == IF a <= b THEN a ELSE b

Max2(a, b) == IF a >= b THEN a ELSE b

\* the output size of sharp's resize (withoutEnlargement is not set): both
\* dimensions given: cover, contain and fill produce exactly width x height,
\* inside and outside keep the aspect ratio; one dimension given: the other
\* follows the aspect ratio
ResizeDims(W, H, o) ==
  LET w == o.width
      h == o.height
  IN CASE IsDefined(w) /\ IsDefined(h) /\ o.fit \in {"cover", "contain", "fill"} ->
            [width |-> w.v, height |-> h.v]
       [] IsDefined(w) /\ IsDefined(h) /\ o.fit = "inside" ->
            IF w.v * H <= h.v * W
            THEN [width |-> w.v, height |-> Max2(1, RoundDiv(H * w.v, W))]
            ELSE [width |-> Max2(1, RoundDiv(W * h.v, H)), height |-> h.v]
       [] IsDefined(w) /\ IsDefined(h) ->
            IF w.v * H >= h.v * W
            THEN [width |-> w.v, height |-> Max2(1, RoundDiv(H * w.v, W))]
            ELSE [width |-> Max2(1, RoundDiv(W * h.v, H)), height |-> h.v]
       [] IsDefined(w) -> [width |-> w.v, height |-> Max2(1, RoundDiv(H * w.v, W))]
       [] IsDefined(h) -> [width |-> Max2(1, RoundDiv(W * h.v, H)), height |-> h.v]
       [] OTHER -> [width |-> W, height |-> H]

\* one queued operation applied to a buffer
RECURSIVE Run(_, _)
Run(buffer, queue) ==
  IF Len(queue) = 0 THEN buffer
  ELSE LET op == queue[1]
           next ==
             IF op.op = "resize"
             THEN LET d == ResizeDims(buffer.width, buffer.height, op) IN
                  [buffer EXCEPT !.width = d.width, !.height = d.height,
                                 !.ops = Append(@, op)]
             ELSE [buffer EXCEPT !.format = op.format, !.ops = Append(@, op)]
       IN Run(next, Tail(queue))

\* img.toBuffer()
toBuffer(img) == Run(img.input, img.queue)

(***************************************************************************)
(* routes/image.ts: coerceToRequested; crud.ts: uploadImageToBucket        *)
(***************************************************************************)
E(k, v) == [k |-> k, v |-> v]

\* a < b on JS numbers; false when a is undefined
LessThan(a, b) == a.t = "number" /\ a.v < b

\* a variant that re-encodes whatever is asked
coerceAlways(img, requestedParams, ext, formatParams) ==
  [changed |-> TRUE,
   img |-> [img EXCEPT !.queue =
              Append(@, [op |-> "toFormat", format |-> getFormatFromExtension(ext),
                         options |-> clean(getFormatFromExtension(ext), formatParams)])]]

\* coerceToRequested(img, requestedParams, ext, formatParams): [changed, img]
coerceToRequested(img, requestedParams, ext, formatParams) ==
  LET actualMeta == metadata(img)
      format == getFormatFromExtension(ext)
      width == Get(requestedParams, "width")
      height == Get(requestedParams, "height")
      quality == Get(requestedParams, "quality")
      pos == Get(requestedParams, "pos")
      bg == Get(requestedParams, "bg")
      fit == Or(Get(requestedParams, "fit"), Str("cover")).v
      kernel == Or(Get(requestedParams, "kernel"), Str("lanczos3")).v
      doResize == \/ (Truthy(width) /\ LessThan(width, actualMeta.width))
                  \/ (Truthy(height) /\ LessThan(height, actualMeta.height))
      resizeOptions ==
        [op |-> "resize", width |-> width, height |-> height, fit |-> fit,
         kernel |-> kernel,
         position |-> IF Truthy(pos) /\ fit \in {"cover", "container"}
                      THEN getFullPositionName(pos.v) ELSE "",
         background |-> IF Truthy(bg) /\ fit = "contain" THEN bg.v ELSE ""]
      doFormat == \/ (Truthy(quality) /\ LessThan(quality, 100))
                  \/ format # actualMeta.format
      formatOp == [op |-> "toFormat", format |-> format,
                   options |-> clean(format, formatParams)]
      q1 == IF doResize THEN Append(img.queue, resizeOptions) ELSE img.queue
      q2 == IF doFormat THEN Append(q1, formatOp) ELSE q1
  IN [changed |-> doResize \/ doFormat, img |-> [img EXCEPT !.queue = q2]]

\* x ?? d of a destructuring default: d when x is undefined
Default(x, d) == IF IsDefined(x) THEN x ELSE d

\* the finalParams uploadImageToBucket builds for an image and its params:
\* the size and format are those of the encoded buffer
finalParamsOf(image, params) ==
  LET meta == toBuffer(image)
      pos == Default(Get(params, "pos"), Str("center"))
  IN <<E("width", Num(meta.width)),
       E("height", Num(meta.height)),
       E("format", Str(meta.format)),
       E("quality", Default(Get(params, "quality"), Num(100))),
       E("fit", Default(Get(params, "fit"), Str("cover"))),
       E("pos", Str(ReplaceFirst(pos.v, " "))),
       E("kernel", Default(Get(params, "kernel"), Str("lanczos3"))),
       E("bg", Default(Get(params, "bg"), Str("rgba(0,0,0,0)")))>>

\* uploadImageToBucket(user, id, image, params): the error it throws ("none"
\* when it puts), the key it puts at, the buffer it puts, the params it returns
uploadImageToBucket(user, id, image, params) ==
  LET buffer == toBuffer(image)
      finalParams == finalParamsOf(image, params)
  IN [err |-> IF buffer.width = 0 \/ buffer.height = 0 \/ buffer.format = ""
              THEN "MetadataError"
              ELSE IF buffer.format \notin supportedOutputImageExtensions
              THEN "ImageFormatError" ELSE "none",
      key |-> getKeyForImage(user, id, finalParams),
      buffer |-> buffer,
      params |-> finalParams]

\* the query of a rendition request after Fastify's validation (schema
\* defaults applied): a record of JS values
Query(w, h, q, fit, pos, progressive) ==
  [w |-> w, width |-> Undefined, h |-> h, height |-> Undefined,
   q |-> q, quality |-> Num(100), fit |-> Str(fit), pos |-> Str(pos),
   bg |-> Str("rgba(0,0,0,0)"), kernel |-> Str("lanczos3"),
   progressive |-> Bool(progressive)]

\* requestedImageParams of the read handlers
requestedImageParams(query, format) ==
  <<E("width", Or(query.w, query.width)),
    E("height", Or(query.h, query.height)),
    E("quality", Or(query.q, query.quality)),
    E("fit", query.fit),
    E("pos", IF Truthy(query.pos) THEN Str(getFullPositionName(query.pos.v))
             ELSE Undefined),
    E("bg", query.bg),
    E("kernel", query.kernel),
    E("format", Str(format))>>

\* { ...req.query } after req.query.quality = requestedImageParams.quality:
\* the encoder options among the query's properties
formatParamsOf(query, requestedParams) ==
  <<E("quality", Get(requestedParams, "quality")),
    E("progressive", query.progressive)>>

(***************************************************************************)
(* The service: state                                                      *)
(***************************************************************************)
VARIABLES
  cache,      \* the metadata table: id -> CacheEntry
  bucket,     \* the object store: key -> buffer
  now,        \* the clock, in seconds
  reqs,       \* the requests in flight: slot -> request (or Idle)
  resp,       \* the request that completed last, with its response
  nextId,     \* how many uuids uuidv4() has produced
  issued,     \* how many requests have started
  persisted,  \* history: the reads whose derived rendition was put
  seen,       \* history: the responses given to reads of absent ids and to
              \* reads of private images by callers other than the owner
  ingested,   \* history: url -> the POST /image of that url that completed last
  deleted,    \* history: the ids whose delete by the owner ran and completed
              \* with no other request in flight
  codec       \* the codec under test: input, encoded key, decoded params

vars == <<cache, bucket, now, reqs, resp, nextId, issued, persisted, seen,
          ingested, deleted, codec>>

\* bounds
MaxInflight == 2
MaxRequests == 3

Users == {"u1", "u2"}

\* req.user?.userId of a request without a session
Anonymous == ""

Internal == "internal"

NoUrl == ""

NoEntry == [id |-> "", user |-> "", original_key |-> "", public |-> FALSE,
            url |-> NoUrl, created |-> 0, exp |-> 0]

\* Number.MAX_SAFE_INTEGER, on the model's clock
NeverExpires == 2000000000

\* config.cache.urlCacheTTLSeconds
urlCacheTTLSeconds == 86400

\* a store with nothing in it
EmptyStore == [k \in {} |-> NoBlob]

Idle == [kind |-> "idle"]

NoBody == [type |-> "", error |-> "", message |-> "", id |-> "", buffer |-> NoBlob]

JsonError(error, message) == [NoBody EXCEPT !.type = "application/json",
                                            !.error = error, !.message = message]

JsonId(id) == [NoBody EXCEPT !.type = "application/json", !.id = id]

ImageBody(type, buffer) == [NoBody EXCEPT !.type = type, !.buffer = buffer]

NoResp == [kind |-> "none", status |-> 0]

Slots == 1..MaxInflight

Busy == {s \in Slots : reqs[s] # Idle}

\* the slot a new request takes
FreeSlot(s) == s \in Slots /\ reqs[s] = Idle /\ \A t \in Slots : t < s => reqs[t] # Idle

CanStart(s) == FreeSlot(s) /\ issued < MaxRequests

\* a request as it arrives
NewReq(kind, caller, id, ext, url, force, query) ==
  [kind |-> kind, caller |-> caller, id |-> id, ext |-> ext, url |-> url,
   force |-> force, query |-> query, seq |-> issued + 1, pc |-> "start",
   rec |-> NoEntry, key |-> "", img |-> sharp(NoBlob), changed |-> FALSE,
   keys |-> {}, status |-> 0, body |-> NoBody,
   \* history of the request
   alone |-> Busy = {}, sit |-> "", hit |-> FALSE, coerced |-> FALSE,
   fetches |-> 0, puts |-> 0, creates |-> 0, srcKey |-> "", cands |-> {},
   expect |-> NoBlob, prior |-> [id |-> "", fetches |-> 0, puts |-> 0, creates |-> 0],
   stale |-> FALSE, live |-> FALSE, fmt |-> Undefined, inline |-> NoBlob,
   fetched |-> [ok |-> FALSE, status |-> 0, data |-> NoBlob], got |-> <<>>,
   replies |-> 0, putFailed |-> FALSE, thrown |-> FALSE, under |-> {},
   failed |-> ""]

\* the requests in flight when another one arrives are no longer alone
Joined(s, r) == [t \in Slots |-> IF t = s THEN r
                                 ELSE IF reqs[t] = Idle THEN Idle
                                 ELSE [reqs[t] EXCEPT !.alone = FALSE]]

\* reply.code(status).send(body)
Reply(r, status, body) == [r EXCEPT !.status = status, !.body = body, !.replies = @ + 1]

Done(r) == [r EXCEPT !.pc = "done"]

(***************************************************************************)
(* The requests the model issues                                           *)
(***************************************************************************)
ReadWidths == {Undefined, Num(2), Num(8)}
ReadHeights == {Undefined, Num(3)}
ReadEncodings == {<<"png", Num(100)>>, <<"png", Num(50)>>, <<"webp", Num(100)>>}
ReadExts == {e[1] : e \in ReadEncodings}

ReadQueries ==
  {Query(w, h, e[2], "cover", "center", FALSE) :
     w \in ReadWidths, h \in ReadHeights, e \in ReadEncodings}

Owners == Users \cup {Internal}

\* the ids uuidv4() produces, in the order it produces them, and an id that
\* is never produced
Uuid(n) == "id" \o ToString(n)
MaxIds == 3
AllIds == {Uuid(n) : n \in 1..MaxIds}
AbsentId == "id9"

\* the get key of every read the model can issue, computed once:
\* getKeyForImage(cacheRecord.user, id, requestedImageParams)
RequestKeys ==
  {[user |-> u, id |-> i, ext |-> e, query |-> q,
    key |-> getKeyForImage(u, i, requestedImageParams(q, getFormatFromExtension(e)))] :
     u \in Owners, i \in AllIds, e \in ReadExts, q \in ReadQueries}

RequestKey(user, id, ext, query) ==
  LET m == {x \in RequestKeys : x.user = user /\ x.id = id /\ x.ext = ext /\ x.query = query}
  IN IF m # {} THEN (CHOOSE x \in m : TRUE).key
     ELSE getKeyForImage(user, id, requestedImageParams(query, getFormatFromExtension(ext)))

(***************************************************************************)
(* GET /image/:id.:ext                                                     *)
(***************************************************************************)
NotFoundBody == JsonError("Image Not Found", "The requested image does not exist.")

\* getImageFromCacheById(id)
getImageFromCacheById(id) == IF id \in DOMAIN cache THEN cache[id] ELSE NoEntry

\* the keys the bucket holds under the prefix of user and id
KeysById(user, id) ==
  {k \in DOMAIN bucket : StartsWith(k, BucketPrefix \o user \o "/" \o id)}

\* the number of keys in one answer of the bucket to a listing (1000 in S3)
ListPageSize == 2

\* the order of the keys in a listing: by the first character that differs,
\* a prefix before its extensions
FirstDiff(a, b, n) == LeastOf({i \in 1..n : CharAt(a, i) # CharAt(b, i)})
KeyBeforeAt(a, b, d) ==
  IF d = 0 THEN Len(a) < Len(b)
  ELSE CodeUnit[CharAt(a, d)] < CodeUnit[CharAt(b, d)]
KeyBefore(a, b) ==
  KeyBeforeAt(a, b, FirstDiff(a, b, IF Len(a) < Len(b) THEN Len(a) ELSE Len(b)))

\* the first n keys of a set, in the order of the listing
RECURSIVE FirstKeys(_, _)
FirstKeys(keys, n) ==
  IF keys = {} \/ n = 0 THEN {}
  ELSE LET k == CHOOSE x \in keys : \A y \in keys \ {x} : KeyBefore(x, y)
       IN {k} \cup FirstKeys(keys \ {k}, n - 1)

\* listImageKeysById(user, id): one ListObjects, the Contents of its answer
listImageKeysById(user, id) == FirstKeys(KeysById(user, id), ListPageSize)

\* variants of the access check: one that lets every caller read an existing
\* image, one that serves a private image to nobody
DeniedWhenAbsent(cacheRecord, user) == cacheRecord = NoEntry

DeniedUnlessPublic(cacheRecord, user) == cacheRecord = NoEntry \/ ~cacheRecord.public

\* !cacheRecord || (cacheRecord.user !== user && !cacheRecord.public)
Denied(cacheRecord, user) ==
  cacheRecord = NoEntry \/ (cacheRecord.user # user /\ ~cacheRecord.public)

\* what the caller is to the image: it is absent, private to another user, or
\* readable by the caller
Situation(cacheRecord, caller) ==
  IF cacheRecord = NoEntry THEN "absent"
  ELSE IF cacheRecord.user # caller /\ ~cacheRecord.public THEN "private"
  ELSE "readable"

\* the rendition an earlier, completed read of the same id and parameters put
Persisted(id, ext, query) ==
  {p \in persisted : p.id = id /\ p.ext = ext /\ p.query = query}

\* the quality a buffer was encoded with: that of its last toFormat, or 100
QualityOf(buffer) ==
  LET fs == SelectSeq(buffer.ops, LAMBDA op : op.op = "toFormat")
  IN IF Len(fs) = 0 THEN 100 ELSE Get(fs[Len(fs)].options, "quality").v

\* the renditions stored for an image, with their size and quality
Renditions(user, id) ==
  {[key |-> k, width |-> bucket[k].width, height |-> bucket[k].height,
    quality |-> QualityOf(bucket[k])] : k \in KeysById(user, id)}

\* the responses seen so far, with that of the read r
Seen(r) ==
  IF r.kind = "get" /\ r.sit = "absent"
  THEN [seen EXCEPT !.absent = @ \cup {<<r.status, r.body>>}]
  ELSE IF r.kind = "get" /\ r.sit = "private"
  THEN [seen EXCEPT !.private = @ \cup {<<r.status, r.body>>}]
  ELSE seen

\* the request leaves: its slot is free, its response is the last one
Complete(s, r) ==
  /\ reqs' = [reqs EXCEPT ![s] = Idle]
  /\ resp' = Done(r)
  /\ seen' = Seen(r)

Continue(s, r) ==
  /\ reqs' = [reqs EXCEPT ![s] = r]
  /\ UNCHANGED <<resp, seen>>

\* the request arrives; the handler reads the CacheEntry and checks access
GetImageCheck(s, caller, id, ext, query) ==
  /\ CanStart(s)
  /\ \E cacheRecord \in {getImageFromCacheById(id)} :
     \E r0 \in {[NewReq("get", caller, id, ext, NoUrl, FALSE, query) EXCEPT
                  !.rec = cacheRecord,
                  !.sit = Situation(cacheRecord, caller),
                  !.expect = IF Persisted(id, ext, query) = {}
                                \/ Situation(cacheRecord, caller) # "readable"
                             THEN NoBlob
                             ELSE (CHOOSE p \in Persisted(id, ext, query) : TRUE).buffer]} :
        IF Denied(cacheRecord, caller)
        THEN /\ reqs' = Joined(s, Idle)
             /\ resp' = Done(Reply(r0, 404, NotFoundBody))
             /\ seen' = Seen(Reply(r0, 404, NotFoundBody))
        ELSE /\ reqs' = Joined(s, [r0 EXCEPT !.pc = "lookup",
                                             !.key = RequestKey(cacheRecord.user, id, ext, query)])
             /\ UNCHANGED <<resp, seen>>
  /\ issued' = issued + 1
  /\ UNCHANGED <<cache, bucket, now, nextId, persisted, ingested, deleted, codec>>

\* a variant that turns a miss away while another request is in flight
GetImageLookupBusy(s) ==
  /\ s \in Busy /\ reqs[s].kind = "get" /\ reqs[s].pc = "lookup"
  /\ IF Busy # {s}
     THEN Complete(s, Reply(reqs[s], 500, JsonError("busy", "")))
     ELSE Continue(s, [reqs[s] EXCEPT !.pc = "best"])
  /\ UNCHANGED <<cache, bucket, now, nextId, issued, persisted, ingested, deleted, codec>>

\* getImageFromBucketByKey(key): the rendition exists and is sent, or not
GetImageLookup(s) ==
  /\ s \in Busy /\ reqs[s].kind = "get" /\ reqs[s].pc = "lookup"
  /\ \E r \in {reqs[s]} :
       IF r.key \in DOMAIN bucket
       THEN Complete(s, Reply([r EXCEPT !.hit = TRUE, !.img = sharp(bucket[r.key])], 200,
                       ImageBody("image/" \o r.ext, toBuffer(sharp(bucket[r.key])))))
       ELSE Continue(s, [r EXCEPT !.pc = "best"])
  /\ UNCHANGED <<cache, bucket, now, nextId, issued, persisted, ingested, deleted, codec>>

\* getBestImageByID: the CacheEntry is read again
GetImageBest(s) ==
  /\ s \in Busy /\ reqs[s].kind = "get" /\ reqs[s].pc = "best"
  /\ \E r \in {reqs[s]}, cacheRecord \in {getImageFromCacheById(reqs[s].id)} :
       IF cacheRecord = NoEntry
       THEN Complete(s, Reply(r, 404, JsonError("Image not found", "")))
       ELSE Continue(s, [r EXCEPT !.pc = "derive", !.srcKey = cacheRecord.original_key])
  /\ UNCHANGED <<cache, bucket, now, nextId, issued, persisted, ingested, deleted, codec>>

\* a variant that goes on to the upload without having sent the response
GetImageDeriveUnsent(s) ==
  /\ s \in Busy /\ reqs[s].kind = "get" /\ reqs[s].pc = "derive"
  /\ reqs[s].srcKey \in DOMAIN bucket
  /\ \E r \in {reqs[s]} :
     \E requested \in {requestedImageParams(r.query, getFormatFromExtension(r.ext))} :
     \E co \in {coerceToRequested(sharp(bucket[r.srcKey]), requested, r.ext,
                                  formatParamsOf(r.query, requested))} :
       Continue(s, [r EXCEPT !.pc = "upload", !.img = co.img, !.changed = co.changed])
  /\ UNCHANGED <<cache, bucket, now, nextId, issued, persisted, ingested, deleted, codec>>

\* getBestImageByID: the original is fetched and its key decoded; then
\* coerceToRequested, and the response is sent
GetImageDerive(s) ==
  /\ s \in Busy /\ reqs[s].kind = "get" /\ reqs[s].pc = "derive"
  /\ \E r \in {[reqs[s] EXCEPT !.cands = Renditions(reqs[s].rec.user, reqs[s].id)]} :
     \E requested \in {requestedImageParams(r.query, getFormatFromExtension(r.ext))} :
       IF r.srcKey \notin DOMAIN bucket
       THEN Complete(s, Reply(r, 404, JsonError("Image not found", "")))
       ELSE \E decoded \in {getParamsFromKey(r.srcKey)} :
            IF decoded.err # "none"
            THEN Complete(s, Reply(r, 500, JsonError(decoded.err, "")))
            ELSE \E co \in {coerceToRequested(sharp(bucket[r.srcKey]), requested, r.ext,
                                              formatParamsOf(r.query, requested))} :
                 \E r2 \in {Reply([r EXCEPT !.coerced = TRUE, !.img = co.img,
                                            !.changed = co.changed],
                                  200, ImageBody("image/" \o Get(requested, "format").v,
                                                 toBuffer(co.img)))} :
                 IF co.changed
                 THEN Continue(s, [r2 EXCEPT !.pc = "upload"])
                 ELSE Complete(s, r2)
  /\ UNCHANGED <<cache, bucket, now, nextId, issued, persisted, ingested, deleted, codec>>

\* a variant that leaves without putting
GetImageSkipUpload(s) ==
  /\ s \in Busy /\ reqs[s].kind = "get" /\ reqs[s].pc = "upload"
  /\ Complete(s, reqs[s])
  /\ UNCHANGED <<cache, bucket, now, nextId, issued, persisted, ingested, deleted, codec>>

\* a variant that puts under the prefix of the caller
GetImageUploadAsCaller(s) ==
  /\ s \in Busy /\ reqs[s].kind = "get" /\ reqs[s].pc = "upload"
  /\ \E r \in {reqs[s]} :
     \E up \in {uploadImageToBucket(r.caller, r.id, r.img,
                  requestedImageParams(r.query, getFormatFromExtension(r.ext)))} :
        /\ bucket' = [k \in DOMAIN bucket \cup {up.key} |->
                        IF k = up.key THEN up.buffer ELSE bucket[k]]
        /\ Complete(s, [r EXCEPT !.puts = @ + 1])
        /\ persisted' = persisted \cup
             {[id |-> r.id, ext |-> r.ext, query |-> r.query,
               buffer |-> r.body.buffer, reqKey |-> r.key, key |-> up.key,
               put |-> up.buffer]}
  /\ UNCHANGED <<cache, now, nextId, issued, ingested, deleted, codec>>

\* after the response: uploadImageToBucket(cacheRecord.user, id, img, requestedImageParams)
GetImageUpload(s) ==
  /\ s \in Busy /\ reqs[s].kind = "get" /\ reqs[s].pc = "upload"
  /\ \E r \in {reqs[s]} :
     \E up \in {uploadImageToBucket(r.rec.user, r.id, r.img,
                  requestedImageParams(r.query, getFormatFromExtension(r.ext)))} :
        IF up.err # "none"
        THEN /\ Complete(s, [r EXCEPT !.thrown = TRUE])
             /\ UNCHANGED <<bucket, persisted>>
        ELSE /\ bucket' = [k \in DOMAIN bucket \cup {up.key} |->
                             IF k = up.key THEN up.buffer ELSE bucket[k]]
             /\ Complete(s, [r EXCEPT !.puts = @ + 1])
             /\ persisted' = persisted \cup
                  {[id |-> r.id, ext |-> r.ext, query |-> r.query,
                    buffer |-> r.body.buffer, reqKey |-> r.key, key |-> up.key,
                    put |-> up.buffer]}
  /\ UNCHANGED <<cache, now, nextId, issued, ingested, deleted, codec>>

\* the same step when the object store rejects the put: uploadImageToBucket
\* throws what s3.send threw; the handler's catch throws it again, its name
\* not being ImageDoesNotExist
GetImageUploadFails(s) ==
  /\ s \in Busy /\ reqs[s].kind = "get" /\ reqs[s].pc = "upload"
  /\ Complete(s, [reqs[s] EXCEPT !.putFailed = TRUE, !.thrown = TRUE])
  /\ UNCHANGED <<cache, bucket, now, nextId, issued, persisted, ingested, deleted, codec>>

(***************************************************************************)
(* Reads of an ingested image                                              *)
(***************************************************************************)
\* the content of the image ingested before the reads start: 4 x 4, png
SourceWidth == 4
SourceHeight == 4

SeedBuffer == [src |-> "a", width |-> SourceWidth, height |-> SourceHeight,
               format |-> "png", ops |-> <<>>]

\* the stores after POST /image of SeedBuffer by user as id, the entry made
\* public or private: uploadImageToBucket then createNewImageInCache
SeedUpload(user, id) == uploadImageToBucket(user, id, sharp(SeedBuffer), <<>>)

SeedBucket(user, id) ==
  [k \in {SeedUpload(user, id).key} |-> SeedUpload(user, id).buffer]

SeedCache(user, id, isPublic) ==
  [i \in {id} |-> [id |-> id, user |-> user,
                   original_key |-> SeedUpload(user, id).key,
                   public |-> isPublic, url |-> NoUrl, created |-> 0,
                   exp |-> NeverExpires]]

\* the rendition a completed GET /image/<id>.png?w=2&h=3 of the owner has put
SeedQuery == Query(Num(2), Num(3), Num(100), "cover", "center", FALSE)

SeedDerived(user, id) ==
  uploadImageToBucket(user, id,
    coerceToRequested(sharp(SeedBuffer), requestedImageParams(SeedQuery, "png"), "png",
                      formatParamsOf(SeedQuery, requestedImageParams(SeedQuery, "png"))).img,
    requestedImageParams(SeedQuery, "png"))

SeedRendition(user, id) ==
  [k \in {SeedDerived(user, id).key} |-> SeedDerived(user, id).buffer]

NoCodec == [phase |-> "off"]

MaxReads == 2

\* the reads: the owner asks for every rendition, the others and the reads
\* of an absent id for one
ReadShapes ==
  {[caller |-> "u1", id |-> Uuid(1), ext |-> q.ext, query |-> q.query] :
     q \in {x \in RequestKeys : x.user = "u1" /\ x.id = Uuid(1)}}
  \cup {[caller |-> c, id |-> i, ext |-> "png",
         query |-> Query(Num(2), Num(3), Num(100), "cover", "center", FALSE)] :
          c \in {"u2", Anonymous}, i \in {Uuid(1), AbsentId}}

InitRead ==
  /\ \E isPublic \in BOOLEAN : cache = SeedCache("u1", Uuid(1), isPublic)
  /\ \E derived \in BOOLEAN :
       bucket = IF derived THEN SeedBucket("u1", Uuid(1)) @@ SeedRendition("u1", Uuid(1))
                ELSE SeedBucket("u1", Uuid(1))
  /\ now = 0
  /\ reqs = [s \in Slots |-> Idle]
  /\ resp = NoResp
  /\ nextId = 1
  /\ issued = 0
  /\ persisted = {}
  /\ seen = [absent |-> {}, private |-> {}]
  /\ ingested = EmptyStore
  /\ deleted = {}
  /\ codec = NoCodec

GetImage ==
  \/ \E s \in Slots, x \in ReadShapes :
        issued < MaxReads /\ GetImageCheck(s, x.caller, x.id, x.ext, x.query)
  \/ \E s \in Slots : GetImageLookup(s)
  \/ \E s \in Slots : GetImageBest(s)
  \/ \E s \in Slots : GetImageDerive(s)
  \/ \E s \in Slots : GetImageUpload(s)

NextRead == GetImage

SpecRead == InitRead /\ [][NextRead]_vars

(***************************************************************************)
(* POST /image                                                             *)
(***************************************************************************)
\* a lookup that finds no entry, whatever the table holds
ItemsForNoUrl(url) == {}

\* checkCacheForUrl(url): the items the url index holds for the url; the
\* handler takes Items[0]
ItemsForUrl(url) == {cache[i] : i \in {j \in DOMAIN cache : cache[j].url = url}}

\* the url has entries and the clock is past the exp of each of them
Stale(url) ==
  /\ \E i \in DOMAIN cache : cache[i].url = url
  /\ \A i \in DOMAIN cache : cache[i].url = url => cache[i].exp < now

\* the url has exactly one entry, and that one has not expired
Live(url) ==
  /\ Cardinality({i \in DOMAIN cache : cache[i].url = url}) = 1
  /\ \A i \in DOMAIN cache : cache[i].url = url => cache[i].exp >= now

\* what fetch(url) can bring: the image at the url, an error status, or a
\* body that is no image
NotAnImage == [NoBlob EXCEPT !.src = "text"]

UrlBuffer == [SeedBuffer EXCEPT !.src = "b"]

FetchResults ==
  {[ok |-> TRUE, status |-> 200, data |-> UrlBuffer],
   [ok |-> FALSE, status |-> 404, data |-> NotAnImage],
   [ok |-> TRUE, status |-> 200, data |-> NotAnImage]}

\* the POST of the url that last went past the cache check, if it ran alone
\* and created the only entry the url has
NoPrior == [id |-> "", fetches |-> 0, puts |-> 0, creates |-> 0]

PriorIngest(url) ==
  IF /\ url \in DOMAIN ingested
     /\ ingested[url].status = 201
     /\ ~ingested[url].force
     /\ ingested[url].alone
     /\ {i \in DOMAIN cache : cache[i].url = url} = {ingested[url].id}
  THEN [id |-> ingested[url].id, fetches |-> ingested[url].fetches,
        puts |-> ingested[url].puts, creates |-> ingested[url].creates]
  ELSE NoPrior

\* a POST /image leaves
CompletePost(s, r) ==
  /\ Complete(s, r)
  /\ ingested' = IF r.url = NoUrl THEN ingested
                 ELSE [u \in DOMAIN ingested \cup {r.url} |->
                         IF u = r.url THEN Done(r) ELSE ingested[u]]

\* the attribute id_public of an item: `${id}:${isPublic ? 1 : 0}`
IdPublic(id, isPublic) == id \o ":" \o (IF isPublic THEN "1" ELSE "0")

\* coerceObjectToCacheEntry: the public property read from id_public
PublicOf(id_public) == id_public # "" /\ EndsWith(id_public, ":1")

\* a variant whose id_public is always that of a private image
NewPrivateEntry(user, id, originalKey, isPublic, url) ==
  [id |-> id, user |-> user, original_key |-> originalKey,
   public |-> PublicOf(IdPublic(id, FALSE)),
   url |-> url, created |-> now,
   exp |-> IF url # NoUrl THEN now + urlCacheTTLSeconds ELSE NeverExpires]

\* createNewImageInCache(user, id, originalKey, isPublic, url): the entry,
\* as getImageFromCacheById and checkCacheForUrl give it back
NewCacheEntry(user, id, originalKey, isPublic, url) ==
  [id |-> id, user |-> user, original_key |-> originalKey,
   public |-> PublicOf(IdPublic(id, isPublic)),
   url |-> url, created |-> now,
   exp |-> IF url # NoUrl THEN now + urlCacheTTLSeconds ELSE NeverExpires]

\* the request arrives with a url; the handler asks the cache for the url
PostImageCheck(s, caller, url, force) ==
  /\ CanStart(s)
  /\ \E r0 \in {[NewReq("post", caller, "", "", url, force, <<>>) EXCEPT
                   !.prior = PriorIngest(url), !.stale = Stale(url),
                   !.live = Live(url)]} :
       \/ /\ ItemsForUrl(url) = {}
          /\ reqs' = Joined(s, [r0 EXCEPT !.pc = "fetch"])
          /\ UNCHANGED <<resp, seen, ingested>>
       \/ \E cacheEntry \in ItemsForUrl(url) :
            IF ~force
            THEN /\ reqs' = Joined(s, Idle)
                 /\ resp' = Done(Reply([r0 EXCEPT !.rec = cacheEntry, !.id = cacheEntry.id],
                                       304, JsonId(cacheEntry.id)))
                 /\ UNCHANGED <<seen, ingested>>
            ELSE /\ reqs' = Joined(s, [r0 EXCEPT !.pc = "fetch", !.rec = cacheEntry])
                 /\ UNCHANGED <<resp, seen, ingested>>
  /\ issued' = issued + 1
  /\ UNCHANGED <<cache, bucket, now, nextId, persisted, deleted, codec>>

\* fetch(url), the validation of what it brought, and the choice of the id
PostImageFetch(s) ==
  /\ s \in Busy /\ reqs[s].kind = "post" /\ reqs[s].pc = "fetch"
  /\ \E res \in FetchResults :
     \E r \in {[reqs[s] EXCEPT !.fetches = @ + 1, !.fetched = res]} :
       IF ~res.ok
       THEN /\ CompletePost(s, Reply(r, res.status, JsonError("upstream", "")))
            /\ nextId' = nextId
       ELSE IF metadata(sharp(res.data)).format = ""
       THEN /\ CompletePost(s, Reply(r, 400, JsonError("Invalid image", "")))
            /\ nextId' = nextId
       ELSE /\ Continue(s, [r EXCEPT !.pc = "upload", !.img = sharp(res.data),
                                     !.id = IF r.rec # NoEntry THEN r.rec.id ELSE Uuid(nextId)])
            /\ nextId' = IF r.rec # NoEntry THEN nextId ELSE nextId + 1
            /\ ingested' = ingested
  /\ UNCHANGED <<cache, bucket, now, issued, persisted, deleted, codec>>

\* a body whose image property is not base64: the body schema (format
\* "byte") rejects it before the handler runs
NotBase64 == [NoBlob EXCEPT !.src = "not base64"]

InlineImages == {SeedBuffer, NotAnImage, NotBase64}

\* the request arrives with an inline image.  Bytes that are no image make
\* img.metadata() throw, which this branch does not catch: the error handler
\* answers 500
PostImageInline(s, caller, image) ==
  /\ CanStart(s)
  /\ \E r0 \in {[NewReq("post", caller, "", "", NoUrl, FALSE, <<>>) EXCEPT
                   !.inline = image]} :
       IF image = NotBase64
       THEN /\ reqs' = Joined(s, Idle)
            /\ resp' = Done(Reply(r0, 400, JsonError("body/image must match format", "")))
            /\ nextId' = nextId
       ELSE IF image = NotAnImage
       THEN /\ reqs' = Joined(s, Idle)
            /\ resp' = Done(Reply(r0, 500, JsonError("Input buffer contains unsupported image format", "")))
            /\ nextId' = nextId
       ELSE IF metadata(sharp(image)).format = ""
       THEN /\ reqs' = Joined(s, Idle)
            /\ resp' = Done(Reply(r0, 400, JsonError("Invalid image", "")))
            /\ nextId' = nextId
       ELSE /\ reqs' = Joined(s, [r0 EXCEPT !.pc = "upload", !.img = sharp(image),
                                            !.id = Uuid(nextId)])
            /\ resp' = resp
            /\ nextId' = nextId + 1
  /\ issued' = issued + 1
  /\ UNCHANGED <<cache, bucket, now, persisted, seen, ingested, deleted, codec>>

\* uploadImageToBucket(user, id, img, {}) and the key of what it returns
PostImageUpload(s) ==
  /\ s \in Busy /\ reqs[s].kind = "post" /\ reqs[s].pc = "upload"
  /\ \E r \in {reqs[s]} :
     \E up \in {uploadImageToBucket(r.caller, r.id, r.img, <<>>)} :
       IF up.err # "none"
       THEN /\ CompletePost(s, Reply(r, 500, JsonError(up.err, "")))
            /\ bucket' = bucket
       ELSE /\ bucket' = [k \in DOMAIN bucket \cup {up.key} |->
                            IF k = up.key THEN up.buffer ELSE bucket[k]]
            /\ Continue(s, [r EXCEPT !.pc = "create", !.puts = @ + 1,
                                     !.key = getKeyForImage(r.caller, r.id, up.params)])
            /\ ingested' = ingested
  /\ UNCHANGED <<cache, now, nextId, issued, persisted, deleted, codec>>

\* a variant that answers 201 without creating the entry
PostImageNoCreate(s) ==
  /\ s \in Busy /\ reqs[s].kind = "post" /\ reqs[s].pc = "create"
  /\ CompletePost(s, Reply(reqs[s], 201, JsonId(reqs[s].id)))
  /\ UNCHANGED <<cache, bucket, now, nextId, issued, persisted, deleted, codec>>

\* createNewImageInCache(user, id, key, true, url): attribute_not_exists(id)
PostImageCreate(s) ==
  /\ s \in Busy /\ reqs[s].kind = "post" /\ reqs[s].pc = "create"
  /\ \E r \in {reqs[s]} :
       IF r.id \in DOMAIN cache
       THEN /\ CompletePost(s, Reply(r, 500, JsonError("Image already exists", "")))
            /\ cache' = cache
       ELSE /\ cache' = [i \in DOMAIN cache \cup {r.id} |->
                           IF i = r.id
                           THEN NewCacheEntry(r.caller, r.id, r.key, TRUE, r.url)
                           ELSE cache[i]]
            /\ CompletePost(s, Reply([r EXCEPT !.creates = @ + 1], 201, JsonId(r.id)))
  /\ UNCHANGED <<bucket, now, nextId, issued, persisted, deleted, codec>>

\* no request is served
Quiet ==
  /\ cache = EmptyStore
  /\ bucket = EmptyStore
  /\ now = 0
  /\ reqs = [s \in Slots |-> Idle]
  /\ resp = NoResp
  /\ nextId = 1
  /\ issued = 0
  /\ persisted = {}
  /\ seen = [absent |-> {}, private |-> {}]
  /\ ingested = EmptyStore
  /\ deleted = {}

(***************************************************************************)
(* Ingests into empty stores                                               *)
(***************************************************************************)
MaxPosts == 3

Urls == {"http://h/a.png"}

PostCallers == {"u1", Internal}

InitIngest ==
  /\ Quiet
  /\ codec = NoCodec

PostImage ==
  \/ \E s \in Slots, caller \in PostCallers, url \in Urls, force \in BOOLEAN :
        issued < MaxPosts /\ PostImageCheck(s, caller, url, force)
  \/ \E s \in Slots, caller \in PostCallers :
        issued < MaxPosts /\ \E image \in InlineImages : PostImageInline(s, caller, image)
  \/ \E s \in Slots : PostImageFetch(s)
  \/ \E s \in Slots : PostImageUpload(s)
  \/ \E s \in Slots : PostImageCreate(s)

NextIngest == PostImage

SpecIngest == InitIngest /\ [][NextIngest]_vars

\* C7: a POST of a url without force that runs alone, after the POST that
\* created the url's only entry ran alone, is answered 304 with the same id
\* and fetches, puts and creates nothing: the two together fetched once, put
\* once and created one entry.
C7_SecondIngestIsNotModified ==
  (/\ resp.kind = "post" /\ resp.url # NoUrl /\ ~resp.force /\ resp.alone
   /\ resp.prior.id # "") =>
    /\ resp.status = 304
    /\ resp.body.id = resp.prior.id
    /\ resp.fetches + resp.prior.fetches = 1
    /\ resp.puts + resp.prior.puts = 1
    /\ resp.creates + resp.prior.creates = 1

C7_Witness ==
  /\ resp.kind = "post" /\ resp.url # NoUrl /\ ~resp.force /\ resp.alone
  /\ resp.prior.id # ""
  /\ resp.status = 304
  /\ resp.seq = 2

\* C8: in every state at most one unexpired CacheEntry has a given source url.
C8_OneEntryPerUrl ==
  \A i \in DOMAIN cache : \A j \in DOMAIN cache :
    (/\ cache[i].url # NoUrl /\ cache[i].url = cache[j].url
     /\ cache[i].exp > now /\ cache[j].exp > now) => i = j

(***************************************************************************)
(* DELETE /image/:id                                                       *)
(***************************************************************************)
\* a variant of the blob removal that removes nothing
deleteNoImage(keys) == bucket

\* removeImageFromCacheById(id)
removeImageFromCacheById(id) == [i \in DOMAIN cache \ {id} |-> cache[i]]

\* Promise.all(toDelete.map(deleteImageFromBucketByKey))
deleteImageFromBucketByKey(keys) == [k \in DOMAIN bucket \ keys |-> bucket[k]]

\* a variant that removes the CacheEntry before it looks for blobs
DeleteImageEager(s, caller, id) ==
  /\ CanStart(s)
  /\ cache' = removeImageFromCacheById(id)
  /\ reqs' = Joined(s, Idle)
  /\ resp' = Done(Reply(NewReq("delete", caller, id, "", NoUrl, FALSE, <<>>), 404,
                        JsonError("Image not found", "")))
  /\ issued' = issued + 1
  /\ UNCHANGED <<bucket, now, nextId, persisted, seen, ingested, deleted, codec>>

\* the request arrives; the handler lists the caller's keys of the id
DeleteImageList(s, caller, id) ==
  /\ CanStart(s)
  /\ \E r0 \in {[NewReq("delete", caller, id, "", NoUrl, FALSE, <<>>) EXCEPT
                   !.keys = listImageKeysById(caller, id),
                   !.under = KeysById(caller, id),
                   !.rec = getImageFromCacheById(id)]} :
       IF r0.keys = {}
       THEN /\ reqs' = Joined(s, Idle)
            /\ resp' = Done(Reply(r0, 404, JsonError("Image not found", "")))
       ELSE /\ reqs' = Joined(s, [r0 EXCEPT !.pc = "remove"])
            /\ resp' = resp
  /\ issued' = issued + 1
  /\ UNCHANGED <<cache, bucket, now, nextId, persisted, seen, ingested, deleted, codec>>

\* a variant that goes on to the blobs and leaves the CacheEntry
DeleteImageKeepEntry(s) ==
  /\ s \in Busy /\ reqs[s].kind = "delete" /\ reqs[s].pc = "remove"
  /\ Continue(s, [reqs[s] EXCEPT !.pc = "blobs"])
  /\ UNCHANGED <<cache, bucket, now, nextId, issued, persisted, ingested, deleted, codec>>

\* the CacheEntry goes first
DeleteImageRemove(s) ==
  /\ s \in Busy /\ reqs[s].kind = "delete" /\ reqs[s].pc = "remove"
  /\ cache' = removeImageFromCacheById(reqs[s].id)
  /\ Continue(s, [reqs[s] EXCEPT !.pc = "blobs"])
  /\ UNCHANGED <<bucket, now, nextId, issued, persisted, ingested, deleted, codec>>

\* then the blobs that were listed; the handler returns
DeleteImageBlobs(s) ==
  /\ s \in Busy /\ reqs[s].kind = "delete" /\ reqs[s].pc = "blobs"
  /\ bucket' = deleteImageFromBucketByKey(reqs[s].keys)
  /\ Complete(s, Reply(reqs[s], 200, NoBody))
  /\ deleted' = IF reqs[s].alone /\ reqs[s].rec # NoEntry /\ reqs[s].rec.user = reqs[s].caller
                THEN deleted \cup {[user |-> reqs[s].caller, id |-> reqs[s].id]}
                ELSE deleted
  /\ UNCHANGED <<cache, now, nextId, issued, persisted, ingested, codec>>

\* what s3.send(DeleteObjectCommand) can throw: that the key is not there,
\* or anything else
DeleteErrors == {"NoSuchKey", "InternalError"}

\* a variant whose catch lets NoSuchKey through as well
DeleteImageBlobsRethrow(s) ==
  /\ s \in Busy /\ reqs[s].kind = "delete" /\ reqs[s].pc = "blobs"
  /\ \E r \in {reqs[s]}, name \in DeleteErrors :
     \E bad \in SUBSET r.keys \ {{}} :
       /\ name = "NoSuchKey" => bad \cap DOMAIN bucket = {}
       /\ bucket' = deleteImageFromBucketByKey(r.keys \ bad)
       /\ Complete(s, Reply([r EXCEPT !.failed = name, !.thrown = TRUE],
                            500, JsonError(name, "")))
  /\ UNCHANGED <<cache, now, nextId, issued, persisted, ingested, deleted, codec>>

\* the blobs when some of the deletes reject: Promise.all rejects with the
\* error, the other deletes go on; NoSuchKey (thrown for a key that is no
\* longer there) is logged and the handler returns, anything else is thrown
\* to the error handler
DeleteImageBlobsFail(s) ==
  /\ s \in Busy /\ reqs[s].kind = "delete" /\ reqs[s].pc = "blobs"
  /\ \E r \in {reqs[s]}, name \in DeleteErrors :
     \E bad \in SUBSET r.keys \ {{}} :
       /\ name = "NoSuchKey" => bad \cap DOMAIN bucket = {}
       /\ bucket' = deleteImageFromBucketByKey(r.keys \ bad)
       /\ IF name = "NoSuchKey"
          THEN Complete(s, Reply([r EXCEPT !.failed = name], 200, NoBody))
          ELSE Complete(s, Reply([r EXCEPT !.failed = name, !.thrown = TRUE],
                               500, JsonError(name, "")))
  /\ UNCHANGED <<cache, now, nextId, issued, persisted, ingested, deleted, codec>>

(***************************************************************************)
(* Deletes and reads of an ingested image                                  *)
(***************************************************************************)
MaxDeleteRequests == 4

DeleteCallers == Users \cup {Internal}

DeleteReadShapes ==
  {[caller |-> c, id |-> Uuid(1), ext |-> "png", query |-> Query(w, Num(3), Num(100), "cover", "center", FALSE)] :
     c \in {"u1"}, w \in {Num(2), Num(8)}}

InitDelete ==
  /\ InitRead
  /\ cache[Uuid(1)].public

DeleteImage ==
  \/ \E s \in Slots, caller \in DeleteCallers :
        issued < MaxDeleteRequests /\ DeleteImageList(s, caller, Uuid(1))
  \/ \E s \in Slots : DeleteImageRemove(s)
  \/ \E s \in Slots : DeleteImageBlobs(s)

ReadDuringDelete ==
  \/ \E s \in Slots, x \in DeleteReadShapes :
        issued < MaxDeleteRequests /\ GetImageCheck(s, x.caller, x.id, x.ext, x.query)
  \/ \E s \in Slots : GetImageLookup(s)
  \/ \E s \in Slots : GetImageBest(s)
  \/ \E s \in Slots : GetImageDerive(s)
  \/ \E s \in Slots : GetImageUpload(s)

NextDelete == DeleteImage \/ ReadDuringDelete

SpecDelete == InitDelete /\ [][NextDelete]_vars

\* C9: once a DELETE by the owner has completed, no other request having been
\* in flight while it ran (no handler running, the upload after a read's
\* response included), listing the owner's keys of the id gives nothing and
\* every read of the id that completes is answered 404.
C9_DeletedStaysDeleted ==
  \A d \in deleted :
    /\ listImageKeysById(d.user, d.id) = {}
    /\ (resp.kind = "get" /\ resp.id = d.id) => resp.status = 404

C9_Witness ==
  /\ deleted # {}
  /\ resp.kind = "get"
  /\ \E d \in deleted : resp.id = d.id /\ resp.status = 404

\* C30: the keys a delete lists are all the keys the bucket holds under the
\* prefix of the caller and the id, however many, so that a delete that ran
\* with nothing else in flight leaves none of them.
C30_ListingIsComplete ==
  /\ \A s \in Slots :
       (reqs[s] # Idle /\ reqs[s].kind = "delete") => reqs[s].keys = reqs[s].under
  /\ resp.kind = "delete" => resp.keys = resp.under
  /\ (resp.kind = "delete" /\ resp.status = 200 /\ resp.alone /\ Busy = {}) =>
       KeysById(resp.caller, resp.id) = {}

(***************************************************************************)
(* Deletes whose blob deletes may reject                                   *)
(***************************************************************************)
DeleteFail == \E s \in Slots : DeleteImageBlobsFail(s)

NextDeleteFail == DeleteImage \/ DeleteFail

SpecDeleteFail == InitDelete /\ [][NextDeleteFail]_vars

\* C33: a DELETE one of whose blob deletes rejects because the key is no
\* longer there still answers 200; when a blob delete rejects for any other
\* reason the caller gets the error; either way the CacheEntry the handler
\* removed first is not back.
C33_AbsentKeyIsSwallowed ==
  (resp.kind = "delete" /\ resp.pc = "done" /\ resp.failed # "") =>
    /\ resp.failed = "NoSuchKey" => (resp.status = 200 /\ ~resp.thrown)
    /\ resp.failed # "NoSuchKey" =>
         (resp.status >= 400 /\ resp.thrown /\ resp.body.error = resp.failed)
    /\ resp.id \notin DOMAIN cache

\* a DELETE that listed the keys before another DELETE removed them
C33_Witness ==
  /\ resp.kind = "delete" /\ resp.pc = "done"
  /\ resp.failed = "NoSuchKey" /\ resp.status = 200
  /\ resp.rec # NoEntry /\ resp.id \notin DOMAIN cache
  /\ resp.keys # {} /\ resp.keys \cap DOMAIN bucket = {}

(***************************************************************************)
(* Deletes by id among the images of two owners                            *)
(***************************************************************************)
\* the id parameter is any string (idParamSchema): an id in use, and a
\* string that ids in use start with
FrameIds == {Uuid(1), "id"}

FrameOwned == {<<"u1", Uuid(1)>>, <<"u1", Uuid(2)>>, <<"u2", Uuid(3)>>}

\* the stores after POST /image of SeedBuffer by u1, by u1 and by u2
InitFrame ==
  /\ cache = [i \in {x[2] : x \in FrameOwned} |->
                SeedCache((CHOOSE x \in FrameOwned : x[2] = i)[1], i, TRUE)[i]]
  /\ bucket = [k \in {SeedUpload(x[1], x[2]).key : x \in FrameOwned} |->
                 SeedBuffer]
  /\ now = 0
  /\ reqs = [s \in Slots |-> Idle]
  /\ resp = NoResp
  /\ nextId = 4
  /\ issued = 0
  /\ persisted = {}
  /\ seen = [absent |-> {}, private |-> {}]
  /\ ingested = EmptyStore
  /\ deleted = {}
  /\ codec = NoCodec

DeleteFrame ==
  \/ \E s \in Slots, caller \in Users, id \in FrameIds :
        issued < MaxDeleteRequests /\ DeleteImageList(s, caller, id)
  \/ \E s \in Slots : DeleteImageRemove(s)
  \/ \E s \in Slots : DeleteImageBlobs(s)

NextFrame == DeleteFrame

SpecFrame == InitFrame /\ [][NextFrame]_vars

\* the key is one of the blobs of the id of the user
KeyOf(k, user, id) == StartsWith(k, BucketPrefix \o user \o "/" \o id \o "_")

\* C34: a step of a DELETE of id i by caller o removes only blobs stored for
\* o and exactly i, removes no CacheEntry but that of i owned by o, and
\* leaves every other blob and entry as it was, the blobs and entries of
\* the ids that i is a proper prefix of among them.
C34_DeleteTouchesOnlyItsImage ==
  [][\A s \in Slots :
       (reqs[s] # Idle /\ reqs[s].kind = "delete" /\ reqs'[s] # reqs[s]) =>
         /\ \A k \in DOMAIN bucket \ DOMAIN bucket' :
              KeyOf(k, reqs[s].caller, reqs[s].id)
         /\ \A i \in DOMAIN cache \ DOMAIN cache' :
              i = reqs[s].id /\ cache[i].user = reqs[s].caller
         /\ \A k \in DOMAIN bucket' : k \in DOMAIN bucket /\ bucket'[k] = bucket[k]
         /\ \A i \in DOMAIN cache' : i \in DOMAIN cache /\ cache'[i] = cache[i]]_vars

(***************************************************************************)
(* A read of one rendition while the image is deleted                      *)
(***************************************************************************)
RaceReadShapes ==
  {[caller |-> "u1", id |-> Uuid(1), ext |-> "png", query |-> SeedQuery]}

ReadRace ==
  \/ \E s \in Slots, x \in RaceReadShapes :
        issued < MaxDeleteRequests /\ GetImageCheck(s, x.caller, x.id, x.ext, x.query)
  \/ \E s \in Slots : GetImageLookup(s)
  \/ \E s \in Slots : GetImageBest(s)
  \/ \E s \in Slots : GetImageDerive(s)
  \/ \E s \in Slots : GetImageUpload(s)

NextRace == DeleteImage \/ ReadRace

SpecRace == InitDelete /\ [][NextRace]_vars

\* C35: when no request is in flight, the put after a response included,
\* every blob in the bucket is a blob of an id that has a CacheEntry; a read
\* that was in flight while a DELETE of its id ran leaves no blob behind.
C35_NoBlobWithoutEntry ==
  Busy = {} =>
    \A k \in DOMAIN bucket :
      \E i \in DOMAIN cache, u \in Owners : KeyOf(k, u, i)

\* C27: a delete removes blobs only once the CacheEntry of its id is gone,
\* and a read that arrives when the entry is gone is answered 404, whatever
\* blobs of the id the bucket still holds.
C27_EntryGoesBeforeBlobs ==
  [][/\ \A s \in Slots :
          (/\ reqs[s] # Idle /\ reqs[s].kind = "delete" /\ reqs'[s] # reqs[s]
           /\ DOMAIN bucket' # DOMAIN bucket) =>
            reqs[s].id \notin DOMAIN cache
     /\ (/\ resp' # resp /\ resp'.kind = "get" /\ resp'.seq = issued + 1
         /\ resp'.id \notin DOMAIN cache) =>
           resp'.status = 404]_vars

C27_Witness ==
  /\ Uuid(1) \notin DOMAIN cache
  /\ listImageKeysById("u1", Uuid(1)) # {}
  /\ resp.kind = "get" /\ resp.id = Uuid(1) /\ resp.status = 404 /\ resp.rec = NoEntry
  /\ \E s \in Slots : reqs[s] # Idle /\ reqs[s].kind = "delete" /\ reqs[s].pc = "blobs"

(***************************************************************************)
(* The codec on its own: a key is encoded from (owner, id, params), then   *)
(* decoded                                                                 *)
(***************************************************************************)
\* an optional property: absent when its value is Undefined
Opt(k, v) == IF IsDefined(v) THEN <<E(k, v)>> ELSE <<>>

CodecOwners == {"u1", Internal}
CodecWidths == {Undefined, Num(4), Num(100)}
CodecQualities == {Undefined, Num(80)}
CodecChroma == {Undefined, Str("4:2:0"), Str("4:4:4"), Str("4:4:4-effort:1")}
CodecEfforts == {Undefined, Num(1)}
CodecFormats == {"jpeg", "avif"}

\* valid ImageParams: every property is within its schema
CodecParams ==
  {Opt("width", w) \o Opt("quality", q) \o <<E("format", Str(f))>>
     \o Opt("chromaSubsampling", c) \o Opt("effort", e) :
     w \in CodecWidths, q \in CodecQualities, f \in CodecFormats,
     c \in CodecChroma, e \in CodecEfforts}

CodecInputs ==
  {[owner |-> o, id |-> Uuid(1), params |-> p] : o \in CodecOwners, p \in CodecParams}

\* the key of every input, computed once
CodecKeys ==
  {[input |-> x, key |-> getKeyForImage(x.owner, x.id, x.params)] : x \in CodecInputs}

InitCodec ==
  /\ Quiet
  /\ \E x \in CodecInputs :
       codec = [phase |-> "input", input |-> x, key |-> "",
                decoded |-> [err |-> "none", params |-> <<>>]]

Encode ==
  /\ codec.phase = "input"
  /\ codec' = [codec EXCEPT !.phase = "encoded",
                 !.key = getKeyForImage(codec.input.owner, codec.input.id,
                                        codec.input.params)]
  /\ UNCHANGED <<cache, bucket, now, reqs, resp, nextId, issued, persisted, seen,
                 ingested, deleted>>

Decode ==
  /\ codec.phase = "encoded"
  /\ codec' = [codec EXCEPT !.phase = "decoded", !.decoded = getParamsFromKey(codec.key)]
  /\ UNCHANGED <<cache, bucket, now, reqs, resp, nextId, issued, persisted, seen,
                 ingested, deleted>>

NextCodec == Encode \/ Decode

SpecCodec == InitCodec /\ [][NextCodec]_vars

\* C2: decoding the key encoded from (owner, id, P), P valid, gives P back.
C2_DecodeInvertsEncode ==
  codec.phase = "decoded" =>
    /\ codec.decoded.err = "none"
    /\ ObjEq(codec.decoded.params, codec.input.params)

\* C3: no two distinct (owner, id, params) have the same key.
C3_KeysAreDistinct ==
  codec.phase = "encoded" =>
    \A x \in CodecKeys : x.key = codec.key => x.input = codec.input

(***************************************************************************)
(* The key of one set of properties inserted in two orders                 *)
(***************************************************************************)
OrderParams ==
  {<<E("width", Num(w)), E("quality", Num(q)), E("format", Str("jpeg")),
     E("fit", Str("cover"))>> : w \in {4, 100}, q \in {80, 100}}

\* the objects with the properties of params, inserted in any order
Reorderings(params) ==
  {[i \in 1..Len(params) |-> params[f[i]]] : f \in Permutations(1..Len(params))}

InitOrder ==
  /\ Quiet
  /\ \E params \in OrderParams : \E other \in Reorderings(params) :
       codec = [phase |-> "input", owner |-> "u1", id |-> Uuid(1), params |-> params,
                other |-> other, key |-> "", otherKey |-> ""]

EncodeBoth ==
  /\ codec.phase = "input"
  /\ codec' = [codec EXCEPT !.phase = "encoded",
                 !.key = getKeyForImage(codec.owner, codec.id, codec.params),
                 !.otherKey = getKeyForImage(codec.owner, codec.id, codec.other)]
  /\ UNCHANGED <<cache, bucket, now, reqs, resp, nextId, issued, persisted, seen,
                 ingested, deleted>>

NextOrder == EncodeBoth

SpecOrder == InitOrder /\ [][NextOrder]_vars

\* C21: two parameter objects that hold the same properties, inserted in
\* different orders, have the same key.
C21_KeyIgnoresInsertionOrder ==
  codec.phase = "encoded" => codec.key = codec.otherKey

C21_Witness ==
  /\ codec.phase = "encoded"
  /\ codec.other[1].k = "fit" /\ codec.other[2].k = "format"
  /\ codec.other # codec.params
  /\ codec.key = "u1/id1_fit:cover-quality:80-width:4.jpeg"

(***************************************************************************)
(* Properties of the reads                                                 *)
(***************************************************************************)
\* C1: a read that starts after an earlier read of the same id and parameters
\* derived a changed rendition and put it is an exact hit: the get on its
\* request key succeeds, coerceToRequested is not called, nothing is put and
\* the bytes are those of the earlier response.
C1_SecondReadIsExactHit ==
  (resp.kind = "get" /\ resp.expect # NoBlob) =>
    /\ resp.status = 200
    /\ resp.hit
    /\ ~resp.coerced
    /\ resp.puts = 0
    /\ resp.body.buffer = resp.expect

\* C4: an image that is served is never larger than the source, in width or
\* in height, and a request for a width above the source's is served at the
\* source's width.
C4_NeverUpscaled ==
  (resp.kind = "get" /\ resp.status = 200) =>
    /\ resp.body.buffer.width <= SourceWidth
    /\ resp.body.buffer.height <= SourceHeight
    /\ (resp.query.w.t = "number" /\ resp.query.w.v > SourceWidth) =>
         resp.body.buffer.width = SourceWidth

\* C5: every response to a read of a private image by a caller who is not its
\* owner is, in status and body, the response to a read of an absent id.
C5_PrivateLooksAbsent ==
  \A a \in seen.private : \A b \in seen.absent : a = b

C5_Witness ==
  /\ seen.private # {}
  /\ seen.absent # {}
  /\ Cardinality(DOMAIN bucket) > 1

\* C6: a read of an image whose CacheEntry and original blob exist is served
\* exactly when the entry is public or the caller is its owner.
C6_ServedIffPublicOrOwner ==
  (/\ resp.kind = "get"
   /\ resp.rec # NoEntry
   /\ resp.id \in DOMAIN cache
   /\ cache[resp.id].original_key \in DOMAIN bucket) =>
    (resp.status = 200 <=> (resp.rec.public \/ resp.caller = resp.rec.user))

C6_Witness ==
  /\ resp.kind = "get"
  /\ resp.rec # NoEntry
  /\ ~resp.rec.public
  /\ resp.caller = resp.rec.user
  /\ resp.status = 200
  /\ seen.private # {}

\* C24: a read that derives has changed = true exactly when a resize or a
\* re-encode was queued on the source; it puts exactly when changed = true,
\* and otherwise serves the bytes of the source.
C24_PutExactlyWhenChanged ==
  (resp.kind = "get" /\ resp.coerced /\ resp.srcKey \in DOMAIN bucket) =>
    /\ resp.changed <=> Len(resp.body.buffer.ops) > Len(bucket[resp.srcKey].ops)
    /\ resp.changed <=> resp.puts = 1
    /\ ~resp.changed => (resp.body.buffer = bucket[resp.srcKey] /\ resp.puts = 0)

C24_Witness ==
  /\ resp.kind = "get" /\ resp.coerced /\ ~resp.changed
  /\ resp.status = 200 /\ resp.puts = 0
  /\ resp.body.buffer = SeedBuffer
  /\ \E p \in persisted : p.key \in DOMAIN bucket

\* the step is one of a read by id in slot s
ReadStep(s) ==
  /\ reqs'[s] # reqs[s]
  /\ \/ reqs[s] # Idle /\ reqs[s].kind = "get"
     \/ reqs[s] = Idle /\ reqs'[s] # Idle /\ reqs'[s].kind = "get"

\* C36: no step of a read by id changes the table, and the key a read puts
\* at is never the original_key of the entry: the blob at original_key is
\* after the step what it was before.
C36_ReadLeavesEntryAndOriginal ==
  [][\A s \in Slots : ReadStep(s) =>
       /\ cache' = cache
       /\ \A p \in persisted' \ persisted : p.key # reqs[s].rec.original_key
       /\ \A i \in DOMAIN cache :
            cache[i].original_key \in DOMAIN bucket =>
              /\ cache[i].original_key \in DOMAIN bucket'
              /\ bucket'[cache[i].original_key] = bucket[cache[i].original_key]]_vars

\* a read that re-encoded the original at its own size has put its rendition
C36_Witness ==
  /\ resp.kind = "get" /\ resp.pc = "done" /\ resp.puts = 1
  /\ resp.body.buffer.width = SourceWidth /\ resp.body.buffer.height = SourceHeight
  /\ \E p \in persisted :
       /\ p.key \in DOMAIN bucket /\ p.key # cache[p.id].original_key
       /\ bucket[cache[p.id].original_key] = SeedBuffer

\* C37: whoever the caller of a read is, what the read puts is put under the
\* prefix of the user of the CacheEntry, and the step adds or changes no key
\* under another prefix.
C37_PutUnderTheOwnersPrefix ==
  [][\A s \in Slots : (ReadStep(s) /\ reqs[s] # Idle) =>
       /\ \A p \in persisted' \ persisted : KeyOf(p.key, reqs[s].rec.user, reqs[s].id)
       /\ \A k \in DOMAIN bucket' :
            (k \notin DOMAIN bucket \/ bucket'[k] # bucket[k]) =>
              KeyOf(k, reqs[s].rec.user, reqs[s].id)]_vars

\* a read of a public image by someone who is not its owner has put
C37_Witness ==
  /\ resp.kind = "get" /\ resp.pc = "done" /\ resp.puts = 1
  /\ resp.caller \in {"u2", Anonymous} /\ resp.rec.user = "u1"
  /\ \E p \in persisted : p.id = resp.id /\ p.key \in DOMAIN bucket

\* C10: the rendition a miss derives from is, among those stored for the
\* image when it derives, the one with the most pixels, the one of greatest
\* quality among those with the most pixels.
C10_DerivesFromLargest ==
  (resp.kind = "get" /\ resp.coerced) =>
    \E src \in resp.cands :
      /\ src.key = resp.srcKey
      /\ \A c \in resp.cands :
           \/ c.width * c.height < src.width * src.height
           \/ (c.width * c.height = src.width * src.height /\ c.quality <= src.quality)

(***************************************************************************)
(* crud.ts: listImagesForUser, a Query of the user index (hash key user,   *)
(* range key created) with Limit and ExclusiveStartKey                     *)
(***************************************************************************)
MaxListCalls == 4

ListLimits == {1, 2, 3}

NoToken == ""

\* the order of the user index: by created, then by id
KeyLess(a, b) ==
  a.created < b.created \/ (a.created = b.created /\ StrLess(a.id, b.id))

RECURSIVE SortEntries(_)
SortEntries(entries) ==
  IF entries = {} THEN <<>>
  ELSE LET first == CHOOSE x \in entries : \A y \in entries \ {x} : KeyLess(x, y)
       IN <<first>> \o SortEntries(entries \ {first})

\* the items the index holds for the user, in index order
UserIndex(user) == SortEntries({cache[i] : i \in {j \in DOMAIN cache : cache[j].user = user}})

\* JSON.stringify(Item.toObject(LastEvaluatedKey)): the key of an item of the
\* index is its id, user and created
TokenOf(e) ==
  "{\"id\":\"" \o e.id \o "\",\"user\":\"" \o e.user \o "\",\"created\":"
     \o ToString(e.created) \o "}"

\* a JSON string literal without its quotes
Unquote(x) == SubSeq(x, 2, Len(x) - 1)

\* the value of the member "name":value of a JSON object
MemberValue(member) == Split(member, ":")[2]

\* Item.fromObject(JSON.parse(token))
StartKeyOf(token) ==
  LET members == Split(SubSeq(token, 2, Len(token) - 1), ",")
  IN [id |-> Unquote(MemberValue(members[1])),
      user |-> Unquote(MemberValue(members[2])),
      created |-> DigitsVal(MemberValue(members[3]))]

\* a variant of the start position that takes the start key's item again
FromKey(index, token) ==
  IF token = NoToken THEN index
  ELSE LET NotBefore(e) == ~KeyLess(e, StartKeyOf(token)) IN SelectSeq(index, NotBefore)

\* the items after ExclusiveStartKey
AfterKey(index, token) ==
  IF token = NoToken THEN index
  ELSE LET After(e) == KeyLess(StartKeyOf(token), e) IN SelectSeq(index, After)

\* the Query: at most limit items; LastEvaluatedKey when the limit stopped it
QueryPage(rest, limit) ==
  [Items |-> SubSeq(rest, 1, Min2(limit, Len(rest))),
   LastEvaluatedKey |-> IF Len(rest) >= limit THEN TokenOf(rest[limit]) ELSE NoToken]

listImagesForUser(user, limit, token) ==
  LET page == QueryPage(AfterKey(UserIndex(user), token), limit)
  IN [images |-> page.Items, next |-> page.LastEvaluatedKey]

ListBody(images, next) ==
  [type |-> "application/json", error |-> "", message |-> "", id |-> "",
   buffer |-> NoBlob, images |-> images, next |-> next]

\* one call, with the token the caller holds; got is what the caller has
\* been given since its call without token
ListCall(s, user, limit, token, got) ==
  /\ FreeSlot(s) /\ issued < MaxListCalls
  /\ \E page \in {listImagesForUser(user, limit, token)} :
       resp' = Done(Reply([NewReq("list", user, "", "", NoUrl, FALSE,
                                  [limit |-> limit, token |-> token]) EXCEPT
                             !.got = got \o [i \in 1..Len(page.images) |-> page.images[i].id]],
                          200, ListBody(page.images, page.next)))
  /\ reqs' = Joined(s, Idle)
  /\ issued' = issued + 1
  /\ UNCHANGED <<cache, bucket, now, nextId, persisted, seen, ingested, deleted, codec>>

\* the first page
ListImagesFirst(s, user, limit) == ListCall(s, user, limit, NoToken, <<>>)

\* the page after the one received last
ListImagesNext(s, limit) ==
  /\ resp.kind = "list" /\ resp.body.next # NoToken
  /\ ListCall(s, resp.caller, limit, resp.body.next, resp.got)

\* the tables: each id is absent, or of u1 created at 0 or at 1, or of u2
ListIds == {Uuid(n) : n \in 1..4}

ListRows == {[user |-> "", created |-> 0], [user |-> "u1", created |-> 0],
             [user |-> "u1", created |-> 1], [user |-> "u2", created |-> 0]}

ListTable(rows) ==
  [i \in {j \in ListIds : rows[j].user # ""} |->
     [id |-> i, user |-> rows[i].user, original_key |-> "test-key", public |-> FALSE,
      url |-> NoUrl, created |-> rows[i].created, exp |-> NeverExpires]]

InitList ==
  /\ \E rows \in [ListIds -> ListRows] : cache = ListTable(rows)
  /\ bucket = EmptyStore
  /\ now = 1
  /\ reqs = [s \in Slots |-> Idle]
  /\ resp = NoResp
  /\ nextId = 1
  /\ issued = 0
  /\ persisted = {}
  /\ seen = [absent |-> {}, private |-> {}]
  /\ ingested = EmptyStore
  /\ deleted = {}
  /\ codec = NoCodec

ListImages ==
  \/ \E s \in Slots, limit \in ListLimits : ListImagesFirst(s, "u1", limit)
  \/ \E s \in Slots, limit \in ListLimits : ListImagesNext(s, limit)

NextList == ListImages

SpecList == InitList /\ [][NextList]_vars

\* C18: when the paging of a user's images ends (a page without next token),
\* the ids given since the call without token are the ids of the user's
\* images, each once.
C18_PagingYieldsEachImageOnce ==
  (resp.kind = "list" /\ resp.body.next = NoToken) =>
    /\ {resp.got[i] : i \in 1..Len(resp.got)}
         = {j \in DOMAIN cache : cache[j].user = resp.caller}
    /\ \A i \in 1..Len(resp.got) : \A j \in 1..Len(resp.got) :
         resp.got[i] = resp.got[j] => i = j

C18_Witness ==
  /\ resp.kind = "list" /\ resp.body.next = NoToken
  /\ resp.seq >= 3
  /\ Len(resp.got) >= 3
  /\ \E j \in DOMAIN cache : cache[j].user = "u2"

(***************************************************************************)
(* GET /image?url=                                                         *)
(***************************************************************************)
supportedInputImageExtensions ==
  {"jpg", "jpeg", "png", "gif", "webp", "bmp", "tiff", "apng", "heic", "heif"}

GreatestOf(at) == IF at = {} THEN 0 ELSE CHOOSE j \in at : \A k \in at : j >= k

LastIndexOf(s, c) == GreatestOf({j \in 1..Len(s) : CharAt(s, j) = c})

\* new URL(url).pathname of a url without query or fragment
pathname(url) ==
  LET i == IndexFrom(url, "/", IndexFrom(url, "/", 1) + 2)
  IN IF i = 0 THEN "/" ELSE SubSeq(url, i, Len(url))

\* path.extname(p): from the last dot of the last segment, "" when there is
\* none or the segment starts with it
extname(p) ==
  LET slash == LastIndexOf(p, "/")
      dot == LastIndexOf(p, ".")
  IN IF dot > slash + 1 THEN SubSeq(p, dot, Len(p)) ELSE ""

\* path.extname(parsedUrl.pathname).substring(1)
UrlExt(url) ==
  LET e == extname(pathname(url)) IN IF e = "" THEN "" ELSE SubSeq(e, 2, Len(e))

\* requestedImageParams of the handler, for the request r
UrlRequested(r) ==
  requestedImageParams(r.query, Or(r.fmt, Str(getFormatFromExtension(r.ext))).v)

\* the request arrives; the extension of the url is checked, then
\* checkCacheForUrl(url)
GetUrlCheck(s, caller, url, query, fmt) ==
  /\ CanStart(s)
  /\ \E ext \in {UrlExt(url)} :
     \E r0 \in {[NewReq("geturl", caller, "", "", url, FALSE, query) EXCEPT
                   !.fmt = fmt, !.stale = Stale(url), !.live = Live(url),
                   !.ext = IF ext \in supportedOutputImageExtensions THEN ext ELSE "webp"]} :
       IF ext \notin supportedInputImageExtensions
       THEN /\ reqs' = Joined(s, Idle)
            /\ resp' = Done(Reply([r0 EXCEPT !.ext = ""], 400,
                                  JsonError("Invalid image extension", "")))
       ELSE \/ /\ ItemsForUrl(url) = {}
               /\ reqs' = Joined(s, [r0 EXCEPT !.pc = "fetch"])
               /\ resp' = resp
            \/ \E cacheRecord \in ItemsForUrl(url) :
                 /\ reqs' = Joined(s, [r0 EXCEPT !.pc = "lookup", !.rec = cacheRecord,
                                         !.id = cacheRecord.id,
                                         !.key = getKeyForImage(cacheRecord.user, cacheRecord.id,
                                                                UrlRequested(r0))])
                 /\ resp' = resp
  /\ issued' = issued + 1
  /\ UNCHANGED <<cache, bucket, now, nextId, persisted, seen, ingested, deleted, codec>>

\* fetch(url) and img.metadata(), which throws on bytes that are no image;
\* nothing catches it here
GetUrlFetch(s) ==
  /\ s \in Busy /\ reqs[s].kind = "geturl" /\ reqs[s].pc = "fetch"
  /\ \E res \in FetchResults :
     \E r \in {[reqs[s] EXCEPT !.fetches = @ + 1, !.fetched = res]} :
       IF ~res.ok
       THEN /\ Complete(s, Reply(r, res.status, JsonError("upstream", "")))
            /\ nextId' = nextId
       ELSE IF res.data = NotAnImage
       THEN /\ Complete(s, Reply(r, 500, JsonError("Input buffer contains unsupported image format", "")))
            /\ nextId' = nextId
       ELSE IF metadata(sharp(res.data)).format = ""
       THEN /\ Complete(s, Reply(r, 400, JsonError("Invalid image", "")))
            /\ nextId' = nextId
       ELSE /\ Continue(s, [r EXCEPT !.pc = "original", !.img = sharp(res.data),
                                     !.id = Uuid(nextId)])
            /\ nextId' = nextId + 1
  /\ UNCHANGED <<cache, bucket, now, issued, persisted, ingested, deleted, codec>>

\* uploadImageToBucket(user, id, img, {})
GetUrlUploadOriginal(s) ==
  /\ s \in Busy /\ reqs[s].kind = "geturl" /\ reqs[s].pc = "original"
  /\ \E r \in {reqs[s]} :
     \E up \in {uploadImageToBucket(r.caller, r.id, r.img, <<>>)} :
       IF up.err # "none"
       THEN /\ Complete(s, Reply(r, 500, JsonError(up.err, "")))
            /\ bucket' = bucket
       ELSE /\ bucket' = [k \in DOMAIN bucket \cup {up.key} |->
                            IF k = up.key THEN up.buffer ELSE bucket[k]]
            /\ Continue(s, [r EXCEPT !.pc = "create", !.puts = @ + 1,
                                     !.srcKey = getKeyForImage(r.caller, r.id, up.params)])
  /\ UNCHANGED <<cache, now, nextId, issued, persisted, ingested, deleted, codec>>

\* cacheRecord = createNewImageInCache(user, id, key, true, url); img is set,
\* so the handler goes on to coerceToRequested
GetUrlCreate(s) ==
  /\ s \in Busy /\ reqs[s].kind = "geturl" /\ reqs[s].pc = "create"
  /\ \E r \in {reqs[s]} :
       IF r.id \in DOMAIN cache
       THEN /\ Complete(s, Reply(r, 500, JsonError("Image already exists", "")))
            /\ cache' = cache
       ELSE \E entry \in {NewCacheEntry(r.caller, r.id, r.srcKey, TRUE, r.url)} :
            /\ cache' = [i \in DOMAIN cache \cup {r.id} |->
                           IF i = r.id THEN entry ELSE cache[i]]
            /\ Continue(s, [r EXCEPT !.pc = "derive", !.creates = @ + 1, !.rec = entry])
  /\ UNCHANGED <<bucket, now, nextId, issued, persisted, ingested, deleted, codec>>

\* getImageFromBucketByKey(key, "sharp") of the requested rendition
GetUrlLookup(s) ==
  /\ s \in Busy /\ reqs[s].kind = "geturl" /\ reqs[s].pc = "lookup"
  /\ \E r \in {reqs[s]} :
       IF r.key \in DOMAIN bucket
       THEN Continue(s, [r EXCEPT !.pc = "derive", !.hit = TRUE, !.srcKey = r.key,
                                  !.img = sharp(bucket[r.key])])
       ELSE Continue(s, [r EXCEPT !.pc = "best"])
  /\ UNCHANGED <<cache, bucket, now, nextId, issued, persisted, ingested, deleted, codec>>

\* getBestImageByID(cacheRecord.id, "sharp"): its parameters are (user, id),
\* so the entry it reads is that of the id "sharp"; ImageDoesNotExist is
\* thrown from the catch block and reaches the error handler
GetUrlBest(s) ==
  /\ s \in Busy /\ reqs[s].kind = "geturl" /\ reqs[s].pc = "best"
  /\ \E r \in {reqs[s]}, cacheRecord \in {getImageFromCacheById("sharp")} :
       IF cacheRecord = NoEntry \/ cacheRecord.original_key \notin DOMAIN bucket
       THEN Complete(s, Reply(r, 500, JsonError("Image does not exist", "")))
       ELSE Continue(s, [r EXCEPT !.pc = "derive", !.srcKey = cacheRecord.original_key,
                                  !.img = sharp(bucket[cacheRecord.original_key])])
  /\ UNCHANGED <<cache, bucket, now, nextId, issued, persisted, ingested, deleted, codec>>

\* coerceToRequested(img, requestedImageParams, requestedImageParams.format,
\* { ...req.query }) and the response
GetUrlDerive(s) ==
  /\ s \in Busy /\ reqs[s].kind = "geturl" /\ reqs[s].pc = "derive"
  /\ \E r \in {reqs[s]} :
     \E requested \in {UrlRequested(r)} :
     \E co \in {coerceToRequested(r.img, requested, Get(requested, "format").v,
                                  formatParamsOf(r.query, requested))} :
     \E r2 \in {Reply([r EXCEPT !.coerced = TRUE, !.img = co.img, !.changed = co.changed],
                      200, ImageBody("image/" \o Get(requested, "format").v,
                                     toBuffer(co.img)))} :
       IF co.changed
       THEN Continue(s, [r2 EXCEPT !.pc = "upload"])
       ELSE Complete(s, r2)
  /\ UNCHANGED <<cache, bucket, now, nextId, issued, persisted, ingested, deleted, codec>>

\* after the response: uploadImageToBucket(cacheRecord.user, cacheRecord.id,
\* newImg, requestedImageParams)
GetUrlUpload(s) ==
  /\ s \in Busy /\ reqs[s].kind = "geturl" /\ reqs[s].pc = "upload"
  /\ \E r \in {reqs[s]} :
     \E up \in {uploadImageToBucket(r.rec.user, r.rec.id, r.img, UrlRequested(r))} :
       IF up.err # "none"
       THEN /\ Complete(s, [r EXCEPT !.thrown = TRUE])
            /\ bucket' = bucket
       ELSE /\ bucket' = [k \in DOMAIN bucket \cup {up.key} |->
                            IF k = up.key THEN up.buffer ELSE bucket[k]]
            /\ Complete(s, [r EXCEPT !.puts = @ + 1])
  /\ UNCHANGED <<cache, now, nextId, issued, persisted, ingested, deleted, codec>>

\* the same step when the object store rejects the put: uploadImageToBucket
\* throws what s3.send threw, and the handler has no try around the call
GetUrlUploadFails(s) ==
  /\ s \in Busy /\ reqs[s].kind = "geturl" /\ reqs[s].pc = "upload"
  /\ Complete(s, [reqs[s] EXCEPT !.putFailed = TRUE, !.thrown = TRUE])
  /\ UNCHANGED <<cache, bucket, now, nextId, issued, persisted, ingested, deleted, codec>>

(***************************************************************************)
(* A cached url, read and ingested again while the clock runs              *)
(***************************************************************************)
MaxUrlRequests == 2
MaxTicks == 1

\* the clock passes the exp of the entries created before; the table has no
\* time to live, so they stay
Tick ==
  /\ now < MaxTicks * (urlCacheTTLSeconds + 1)
  /\ now' = now + urlCacheTTLSeconds + 1
  /\ UNCHANGED <<cache, bucket, reqs, resp, nextId, issued, persisted, seen,
                 ingested, deleted, codec>>

\* the stores after POST /image {url} by u1 at time 0
UrlSeedUpload == uploadImageToBucket("u1", Uuid(1), sharp(UrlBuffer), <<>>)

UrlSeedCache ==
  [i \in {Uuid(1)} |->
     [id |-> Uuid(1), user |-> "u1", original_key |-> UrlSeedUpload.key, public |-> TRUE,
      url |-> "http://h/a.png", created |-> 0, exp |-> urlCacheTTLSeconds]]

UrlQueries ==
  {Query(Num(2), Num(3), Num(100), "cover", "center", FALSE),
   Query(Num(2), Num(3), Num(50), "cover", "center", FALSE),
   Query(Num(SourceWidth), Num(SourceHeight), Num(100), "cover", "center", FALSE)}

\* the cached url and one that is not cached
PostUrls == Urls \cup {"http://h/b.png"}

ReadUrls == PostUrls \cup {"http://h/a.txt"}

InitUrl ==
  /\ cache = UrlSeedCache
  /\ bucket = [k \in {UrlSeedUpload.key} |-> UrlSeedUpload.buffer]
  /\ now = 0
  /\ reqs = [s \in Slots |-> Idle]
  /\ resp = NoResp
  /\ nextId = 2
  /\ issued = 0
  /\ persisted = {}
  /\ seen = [absent |-> {}, private |-> {}]
  /\ ingested = EmptyStore
  /\ deleted = {}
  /\ codec = NoCodec

GetUrl ==
  \/ \E s \in Slots, url \in ReadUrls, query \in UrlQueries :
        issued < MaxUrlRequests /\ GetUrlCheck(s, "u1", url, query, Undefined)
  \/ \E s \in Slots : GetUrlFetch(s)
  \/ \E s \in Slots : GetUrlUploadOriginal(s)
  \/ \E s \in Slots : GetUrlCreate(s)
  \/ \E s \in Slots : GetUrlLookup(s)
  \/ \E s \in Slots : GetUrlBest(s)
  \/ \E s \in Slots : GetUrlDerive(s)
  \/ \E s \in Slots : GetUrlUpload(s)

PostUrl ==
  \/ \E s \in Slots, url \in PostUrls :
        issued < MaxUrlRequests /\ PostImageCheck(s, "u1", url, FALSE)
  \/ \E s \in Slots : PostImageFetch(s)
  \/ \E s \in Slots : PostImageUpload(s)
  \/ \E s \in Slots : PostImageCreate(s)

NextUrl == GetUrl \/ PostUrl \/ Tick

SpecUrl == InitUrl /\ [][NextUrl]_vars

\* C12: an ingest without force and a read by url that arrive when the url's
\* entries are all past their exp fetch the url again.
C12_ExpiredEntryIsRefetched ==
  (/\ resp.kind \in {"post", "geturl"} /\ resp.pc = "done"
   /\ resp.url # NoUrl /\ ~resp.force /\ resp.stale) =>
    resp.fetches = 1

\* C15: a read by url that arrives alone when the url has one live entry and
\* the requested rendition is not stored answers 200 with an image, fetches
\* nothing, and puts the rendition when it differs from its source.
C15_LiveUrlReadDerives ==
  (/\ resp.kind = "geturl" /\ resp.pc = "done" /\ resp.alone
   /\ resp.live /\ resp.key # "" /\ ~resp.hit) =>
    /\ resp.status = 200
    /\ resp.body.buffer # NoBlob
    /\ resp.fetches = 0
    /\ resp.changed => (resp.puts = 1 /\ resp.key \in DOMAIN bucket)

(***************************************************************************)
(* crud.ts: createNewImageInCache, called by several callers for one id    *)
(***************************************************************************)
MaxCreateCalls == 3

CreateIds == {Uuid(1), Uuid(2)}

\* createNewImageInCache(user, id, originalKey, true, url) is called: the
\* entry is built, with the time of the call
CreateCall(s, user, id, url) ==
  /\ FreeSlot(s) /\ issued < MaxCreateCalls
  /\ reqs' = Joined(s, [NewReq("create", user, id, "", url, FALSE, <<>>) EXCEPT
                          !.pc = "put",
                          !.rec = NewCacheEntry(user, id, getKeyForImage(user, id, <<E("format", Str("png"))>>),
                                                TRUE, url)])
  /\ issued' = issued + 1
  /\ UNCHANGED <<cache, bucket, now, resp, nextId, persisted, seen, ingested, deleted, codec>>

\* the outcome of a call: what it returned or threw
Outcome(r, err) == [id |-> r.id, user |-> r.caller, seq |-> r.seq, entry |-> r.rec, err |-> err]

\* a variant whose put has no condition
CreatePutUnconditional(s) ==
  /\ s \in Busy /\ reqs[s].kind = "create" /\ reqs[s].pc = "put"
  /\ \E r \in {reqs[s]} :
       /\ cache' = [i \in DOMAIN cache \cup {r.id} |-> IF i = r.id THEN r.rec ELSE cache[i]]
       /\ Complete(s, [r EXCEPT !.creates = @ + 1])
       /\ codec' = [codec EXCEPT !.calls = @ \cup {Outcome(r, "none")}]
  /\ UNCHANGED <<bucket, now, nextId, issued, persisted, ingested, deleted>>

\* the PutItem with ConditionExpression attribute_not_exists(id): the item is
\* written and the entry returned, or ImageAlreadyExists is thrown
CreatePut(s) ==
  /\ s \in Busy /\ reqs[s].kind = "create" /\ reqs[s].pc = "put"
  /\ \E r \in {reqs[s]} :
       IF r.id \in DOMAIN cache
       THEN /\ cache' = cache
            /\ Complete(s, [r EXCEPT !.thrown = TRUE])
            /\ codec' = [codec EXCEPT !.calls = @ \cup {Outcome(r, "ImageAlreadyExists")}]
       ELSE /\ cache' = [i \in DOMAIN cache \cup {r.id} |-> IF i = r.id THEN r.rec ELSE cache[i]]
            /\ Complete(s, [r EXCEPT !.creates = @ + 1])
            /\ codec' = [codec EXCEPT !.calls = @ \cup {Outcome(r, "none")}]
  /\ UNCHANGED <<bucket, now, nextId, issued, persisted, ingested, deleted>>

InitCreate ==
  /\ Quiet
  /\ codec = [phase |-> "create", calls |-> {}]

Create ==
  \/ \E s \in Slots, user \in Users, id \in CreateIds : CreateCall(s, user, id, NoUrl)
  \/ \E s \in Slots : CreatePut(s)

NextCreate == Create \/ Tick

SpecCreate == InitCreate /\ [][NextCreate]_vars

\* the calls for id that have returned or thrown
Called(id) == {c \in codec.calls : c.id = id}

\* C26: of the createNewImageInCache calls for one id, exactly one succeeds
\* and every other one throws ImageAlreadyExists; the entry stored is the one
\* the winner wrote, whatever calls lost after it.
C26_OneCreatorWins ==
  \A id \in CreateIds :
    Called(id) # {} =>
      /\ Cardinality({c \in Called(id) : c.err = "none"}) = 1
      /\ \A c \in Called(id) :
           /\ c.err \in {"none", "ImageAlreadyExists"}
           /\ c.err = "none" => (id \in DOMAIN cache /\ cache[id] = c.entry)

C26_Witness ==
  /\ Cardinality(Called(Uuid(1))) = 2
  /\ \E c \in Called(Uuid(1)) :
       c.err = "ImageAlreadyExists" /\ c.seq = 1 /\ c.entry # cache[Uuid(1)]
  /\ resp.kind = "create" /\ resp.alone = FALSE

(***************************************************************************)
(* crud.ts: makeImagePublic and makeImagePrivate, among ingests and reads  *)
(***************************************************************************)
\* UpdateItem SET id_public = :public with attribute_exists(id); a failed
\* condition is thrown as ImageDoesNotExist
SetIdPublic(id, id_public, name) ==
  /\ IF id \in DOMAIN cache
     THEN /\ cache' = [cache EXCEPT ![id].public = PublicOf(id_public)]
          /\ resp' = [kind |-> name, id |-> id, status |-> 200, seq |-> issued + 1,
                      error |-> ""]
     ELSE /\ cache' = cache
          /\ resp' = [kind |-> name, id |-> id, status |-> 0, seq |-> issued + 1,
                      error |-> "ImageDoesNotExist"]
  /\ issued' = issued + 1
  /\ UNCHANGED <<bucket, now, reqs, nextId, persisted, seen, ingested, deleted, codec>>

\* a variant that puts a whole item for the id, as addUrlToCache writes one
putImagePublic(id) ==
  /\ cache' = [i \in DOMAIN cache \cup {id} |->
                 IF i = id THEN NewCacheEntry("", id, "", TRUE, NoUrl) ELSE cache[i]]
  /\ resp' = [kind |-> "makeImagePublic", id |-> id, status |-> 200,
              seq |-> issued + 1, error |-> ""]
  /\ issued' = issued + 1
  /\ UNCHANGED <<bucket, now, reqs, nextId, persisted, seen, ingested, deleted, codec>>

makeImagePublic(id) == SetIdPublic(id, IdPublic(id, TRUE), "makeImagePublic")

makeImagePrivate(id) == SetIdPublic(id, IdPublic(id, FALSE), "makeImagePrivate")

MaxFlagRequests == 3

FlagIds == {Uuid(1), Uuid(2)}

FlagReadShapes ==
  {[caller |-> c, id |-> Uuid(1), ext |-> "png", query |-> SeedQuery] :
     c \in {"u1", Anonymous}}

PostFlag ==
  \/ \E s \in Slots, caller \in PostCallers, url \in Urls, force \in BOOLEAN :
        issued < MaxFlagRequests /\ PostImageCheck(s, caller, url, force)
  \/ \E s \in Slots :
        issued < MaxFlagRequests /\ PostImageInline(s, "u1", SeedBuffer)
  \/ \E s \in Slots : PostImageFetch(s)
  \/ \E s \in Slots : PostImageUpload(s)
  \/ \E s \in Slots : PostImageCreate(s)

ReadFlag ==
  \/ \E s \in Slots, x \in FlagReadShapes :
        issued < MaxFlagRequests /\ GetImageCheck(s, x.caller, x.id, x.ext, x.query)
  \/ \E s \in Slots : GetImageLookup(s)
  \/ \E s \in Slots : GetImageBest(s)
  \/ \E s \in Slots : GetImageDerive(s)
  \/ \E s \in Slots : GetImageUpload(s)

SetFlag ==
  \/ \E id \in FlagIds : issued < MaxFlagRequests /\ makeImagePublic(id)
  \/ \E id \in FlagIds : issued < MaxFlagRequests /\ makeImagePrivate(id)

NextFlag == PostFlag \/ ReadFlag \/ SetFlag

SpecFlag == InitIngest /\ [][NextFlag]_vars

\* C32: whatever is done, ingests with or without force, reads,
\* makeImagePublic, makeImagePrivate, an entry that exists keeps the
\* original_key and the user it was created with, and a makeImagePublic or
\* makeImagePrivate leaves every entry as it was but for the public property
\* of the entry of its id.
C32_OriginalKeyAndOwnerAreFixed ==
  [][/\ \A i \in DOMAIN cache \cap DOMAIN cache' :
          /\ cache'[i].original_key = cache[i].original_key
          /\ cache'[i].user = cache[i].user
     /\ (resp' # resp /\ resp'.kind \in {"makeImagePublic", "makeImagePrivate"}) =>
          /\ DOMAIN cache' = DOMAIN cache
          /\ \A i \in DOMAIN cache :
               cache'[i] = IF i = resp'.id
                           THEN [cache[i] EXCEPT !.public = resp'.kind = "makeImagePublic"]
                           ELSE cache[i]
          /\ bucket' = bucket]_vars

\* an entry created public has been made private, after a forced ingest of
\* its url was turned away
C32_Witness ==
  /\ resp.kind = "makeImagePrivate" /\ resp.status = 200
  /\ resp.id \in DOMAIN cache /\ ~cache[resp.id].public
  /\ cache[resp.id].original_key \in DOMAIN bucket
  /\ \E u \in DOMAIN ingested : ingested[u].force /\ ingested[u].status = 500

(***************************************************************************)
(* Ingests into empty stores, each followed by reads of no user            *)
(***************************************************************************)
MaxPublicRequests == 3

PublicUrlQueries ==
  {Query(Num(2), Num(3), Num(100), "cover", "center", FALSE),
   Query(Num(SourceWidth), Num(SourceHeight), Num(100), "cover", "center", FALSE)}

PostPublic ==
  \/ \E s \in Slots, url \in Urls, force \in BOOLEAN :
        issued < MaxPublicRequests /\ PostImageCheck(s, "u1", url, force)
  \/ \E s \in Slots :
        issued < MaxPublicRequests /\ PostImageInline(s, "u1", SeedBuffer)
  \/ \E s \in Slots : PostImageFetch(s)
  \/ \E s \in Slots : PostImageUpload(s)
  \/ \E s \in Slots : PostImageCreate(s)

GetUrlPublic ==
  \/ \E s \in Slots, url \in Urls, query \in PublicUrlQueries :
        issued < MaxPublicRequests /\ GetUrlCheck(s, "u1", url, query, Undefined)
  \/ \E s \in Slots : GetUrlFetch(s)
  \/ \E s \in Slots : GetUrlUploadOriginal(s)
  \/ \E s \in Slots : GetUrlCreate(s)
  \/ \E s \in Slots : GetUrlLookup(s)
  \/ \E s \in Slots : GetUrlBest(s)
  \/ \E s \in Slots : GetUrlDerive(s)
  \/ \E s \in Slots : GetUrlUpload(s)

ReadPublic ==
  \/ \E s \in Slots, id \in {Uuid(1), Uuid(2)} :
        issued < MaxPublicRequests /\ GetImageCheck(s, Anonymous, id, "png", SeedQuery)
  \/ \E s \in Slots : GetImageLookup(s)
  \/ \E s \in Slots : GetImageBest(s)
  \/ \E s \in Slots : GetImageDerive(s)
  \/ \E s \in Slots : GetImageUpload(s)

NextPublic == PostPublic \/ GetUrlPublic \/ ReadPublic

SpecPublic == InitIngest /\ [][NextPublic]_vars

\* C38: every CacheEntry an ingest creates, by POST /image with a url or
\* with inline bytes or by the first fetch of GET /image?url=, is public, and
\* a read by no user of an id that had its entry when the read arrived is
\* served.
C38_IngestedEntriesArePublic ==
  [][/\ \A i \in DOMAIN cache' \ DOMAIN cache : cache'[i].public
     /\ (/\ resp' # resp /\ resp'.kind = "get" /\ resp'.caller = Anonymous
         /\ resp'.rec # NoEntry) =>
          (resp'.status = 200 /\ resp'.body.buffer # NoBlob)]_vars

\* a read by no user is served an image that GET /image?url= ingested
C38_Witness ==
  /\ resp.kind = "get" /\ resp.caller = Anonymous /\ resp.status = 200
  /\ resp.rec # NoEntry /\ resp.rec.url # NoUrl /\ resp.rec.public
  /\ resp.body.buffer # NoBlob
  /\ \A u \in DOMAIN ingested : ingested[u].status # 201

(***************************************************************************)
(* Reads by id and by url whose put after the response may fail            *)
(***************************************************************************)
PersistShapes ==
  {[caller |-> "u1", id |-> Uuid(1), ext |-> "png",
    query |-> Query(Num(2), Num(3), q, "cover", "center", FALSE)] : q \in {Num(100), Num(50)}}

ReadPersist ==
  \/ \E s \in Slots, x \in PersistShapes :
        issued < MaxUrlRequests /\ GetImageCheck(s, x.caller, x.id, x.ext, x.query)
  \/ \E s \in Slots : GetImageLookup(s)
  \/ \E s \in Slots : GetImageBest(s)
  \/ \E s \in Slots : GetImageDerive(s)
  \/ \E s \in Slots : GetImageUpload(s)
  \/ \E s \in Slots : GetImageUploadFails(s)

ReadUrlPersist ==
  \/ \E s \in Slots, url \in ReadUrls, query \in UrlQueries :
        issued < MaxUrlRequests /\ GetUrlCheck(s, "u1", url, query, Undefined)
  \/ \E s \in Slots : GetUrlFetch(s)
  \/ \E s \in Slots : GetUrlUploadOriginal(s)
  \/ \E s \in Slots : GetUrlCreate(s)
  \/ \E s \in Slots : GetUrlLookup(s)
  \/ \E s \in Slots : GetUrlBest(s)
  \/ \E s \in Slots : GetUrlDerive(s)
  \/ \E s \in Slots : GetUrlUpload(s)
  \/ \E s \in Slots : GetUrlUploadFails(s)

NextPersist == ReadPersist \/ ReadUrlPersist

SpecPersist == InitUrl /\ [][NextPersist]_vars

\* the step is one of the request in slot s and changes the bucket
Putter(s) == reqs[s] # Idle /\ reqs'[s] # reqs[s] /\ bucket' # bucket

\* C22: a read that puts a rendition it derived has sent its response, the
\* image, before the step that puts.
C22_ResponseBeforePut ==
  [][\A s \in Slots :
       (Putter(s) /\ reqs[s].kind \in {"get", "geturl"} /\ reqs[s].pc # "original") =>
         /\ reqs[s].replies = 1
         /\ reqs[s].status = 200
         /\ reqs[s].body.buffer # NoBlob
         /\ resp'.body = reqs[s].body]_vars

C22_Witness ==
  /\ resp.kind = "get" /\ resp.pc = "done" /\ resp.changed
  /\ resp.puts = 1 /\ resp.status = 200 /\ resp.replies = 1
  /\ \E p \in persisted : p.key \in DOMAIN bucket /\ p.buffer = resp.body.buffer

\* a toFormat is queued on the image
Reencoded(img) == \E i \in 1..Len(img.queue) : img.queue[i].op = "toFormat"

\* the quality recorded in a key
RecordedQuality(key) == Get(getParamsFromKey(key).params, "quality").v

\* the format and the quality a read asked for
AskedOf(r) ==
  IF r.kind = "geturl" THEN UrlRequested(r)
  ELSE requestedImageParams(r.query, getFormatFromExtension(r.ext))

\* C25: a read that passes its source through coerceToRequested re-encodes
\* exactly when the format asked for differs from the source's or the quality
\* asked for is below the quality recorded in the source's key.
C25_ReencodeOnlyBelowRecordedQuality ==
  (resp.kind \in {"get", "geturl"} /\ resp.pc = "done" /\ resp.coerced) =>
    (Reencoded(resp.img) <=>
       \/ Get(AskedOf(resp), "format").v # resp.img.input.format
       \/ Get(AskedOf(resp), "quality").v < RecordedQuality(resp.srcKey))

\* C31: a read, by id or by url, that finds the blob at its request key
\* answers with the stored bytes as they are: nothing is resized, nothing is
\* re-encoded and nothing is put.
C31_ExactHitDoesNothingElse ==
  (resp.kind \in {"get", "geturl"} /\ resp.pc = "done" /\ resp.hit) =>
    /\ resp.status = 200
    /\ resp.body.buffer = resp.img.input
    /\ resp.img.queue = <<>>
    /\ ~resp.changed
    /\ resp.puts = 0 /\ ~resp.putFailed

\* C23: a read whose put after the response fails has the one response it
\* sent, and the failure is not thrown out of its handler.
C23_FailedPutIsNotThrown ==
  (resp.kind \in {"get", "geturl"} /\ resp.pc = "done" /\ resp.putFailed) =>
    /\ resp.replies = 1
    /\ resp.status = 200
    /\ ~resp.thrown

(***************************************************************************)
\* the aliases of urlShortenOptionsSchema and the long names they stand for
PosPairs ==
  {<<"rt", "righttop">>, <<"r", "right">>, <<"rb", "rightbottom">>, <<"b", "bottom">>,
   <<"lb", "leftbottom">>, <<"l", "left">>, <<"lt", "lefttop">>, <<"n", "north">>,
   <<"ne", "northeast">>, <<"e", "east">>, <<"se", "southeast">>, <<"s", "south">>,
   <<"sw", "southwest">>, <<"w", "west">>, <<"nw", "northwest">>, <<"c", "center">>}

AliasShapes ==
  {[caller |-> "u1", id |-> Uuid(1), ext |-> "png",
    query |-> Query(Num(2), Num(3), Num(100), "cover", pair[i], FALSE)] :
     pair \in PosPairs, i \in {1, 2}}

InitAlias ==
  /\ InitRead
  /\ ~cache[Uuid(1)].public
  /\ Cardinality(DOMAIN bucket) = 1

ReadAlias ==
  \/ \E s \in Slots, x \in AliasShapes :
        issued < MaxReads /\ GetImageCheck(s, x.caller, x.id, x.ext, x.query)
  \/ \E s \in Slots : GetImageLookup(s)
  \/ \E s \in Slots : GetImageBest(s)
  \/ \E s \in Slots : GetImageDerive(s)
  \/ \E s \in Slots : GetImageUpload(s)

NextAlias == ReadAlias

SpecAlias == InitAlias /\ [][NextAlias]_vars

\* the queries are the same but for pos, one naming the alias and the other
\* the long name of one position
AliasAndLongName(q1, q2) ==
  /\ <<q1.pos.v, q2.pos.v>> \in PosPairs
  /\ [q1 EXCEPT !.pos = q2.pos] = q2

\* C19: two reads that differ only in naming the position by its alias or by
\* its long name have the same request key, and their derived renditions
\* are put under the same key.
C19_AliasAndLongNameShareKeys ==
  \A p1 \in persisted : \A p2 \in persisted :
    (p1.id = p2.id /\ p1.ext = p2.ext /\ AliasAndLongName(p1.query, p2.query)) =>
      (p1.reqKey = p2.reqKey /\ p1.key = p2.key)

C19_Witness ==
  \E p1 \in persisted : \E p2 \in persisted :
    /\ p1.id = p2.id /\ p1.ext = p2.ext /\ AliasAndLongName(p1.query, p2.query)
    /\ p1.query.pos.v = "rt"
    /\ p1.key \in DOMAIN bucket

(***************************************************************************)
(* Reads that name the quality by q, by quality, or not at all             *)
(***************************************************************************)
\* a query as it is sent: q and quality as given, possibly absent
RawQuery(w, h, q, quality) ==
  [Query(w, h, q, "cover", "center", FALSE) EXCEPT !.quality = quality]

\* the validation of the querystring fills in the defaults of the schema:
\* q and quality both have imageQualitySchema's default, 100
useDefaults(query) ==
  [query EXCEPT !.q = Default(@, Num(100)), !.quality = Default(@, Num(100))]

QualityValues == {Num(50), Num(80)}

\* the queries that name the quality by its long name only
LongNameOnly == {RawQuery(Num(2), Num(3), Undefined, v) : v \in QualityValues}

RawQueries ==
  LongNameOnly
  \cup {RawQuery(Num(2), Num(3), v, Undefined) : v \in QualityValues}
  \cup {RawQuery(Num(2), Num(3), Undefined, Undefined)}

ReadQuality ==
  \/ \E s \in Slots, raw \in RawQueries :
        issued < MaxReads /\ GetImageCheck(s, "u1", Uuid(1), "png", useDefaults(raw))
  \/ \E s \in Slots : GetImageLookup(s)
  \/ \E s \in Slots : GetImageBest(s)
  \/ \E s \in Slots : GetImageDerive(s)
  \/ \E s \in Slots : GetImageUpload(s)

NextQuality == ReadQuality

SpecQuality == InitAlias /\ [][NextQuality]_vars

\* the same query with its quality given as q
AsShortName(raw) == [raw EXCEPT !.q = raw.quality, !.quality = Undefined]

TwinShapes ==
  {[caller |-> "u1", id |-> Uuid(1), ext |-> e,
    query |-> Query(w, Num(3), q, "cover", "center", progressive)] :
     e \in {"png", "webp"}, w \in {Num(2), Num(8)}, q \in {Num(100), Num(50)},
     progressive \in BOOLEAN}

\* the reads of a behaviour are all of the shape chosen at its start
InitTwin ==
  /\ \E x \in TwinShapes : codec = [phase |-> "twin", shape |-> x]
  /\ cache = SeedCache("u1", Uuid(1), FALSE)
  /\ bucket = SeedBucket("u1", Uuid(1))
  /\ now = 0
  /\ reqs = [s \in Slots |-> Idle]
  /\ resp = NoResp
  /\ nextId = 1
  /\ issued = 0
  /\ persisted = {}
  /\ seen = [absent |-> {}, private |-> {}]
  /\ ingested = EmptyStore
  /\ deleted = {}

ReadTwin ==
  \/ \E s \in Slots, x \in {codec.shape} :
        issued < MaxReads /\ GetImageCheck(s, x.caller, x.id, x.ext, x.query)
  \/ \E s \in Slots : GetImageLookup(s)
  \/ \E s \in Slots : GetImageBest(s)
  \/ \E s \in Slots : GetImageDerive(s)
  \/ \E s \in Slots : GetImageUpload(s)

NextTwin == ReadTwin

SpecTwin == InitTwin /\ [][NextTwin]_vars

\* what one read of the shape x, on its own, answers and leaves in the bucket
SingleRead(x) ==
  LET requested == requestedImageParams(x.query, getFormatFromExtension(x.ext))
      co == coerceToRequested(sharp(SeedBuffer), requested, x.ext,
                              formatParamsOf(x.query, requested))
      up == uploadImageToBucket("u1", x.id, co.img, requested)
  IN [body |-> toBuffer(co.img),
      bucket |-> IF co.changed
                 THEN [k \in DOMAIN SeedBucket("u1", x.id) \cup {up.key} |->
                         IF k = up.key THEN up.buffer ELSE SeedBucket("u1", x.id)[k]]
                 ELSE SeedBucket("u1", x.id)]

\* C29: of two reads of the same id and parameters, in every interleaving,
\* each is answered 200 with the bytes one read on its own is answered, and
\* when both have returned the bucket holds what one read on its own leaves.
C29_TwinReadsAgree ==
  \A one \in {SingleRead(codec.shape)} :
    /\ resp.kind = "get" => (resp.status = 200 /\ resp.body.buffer = one.body)
    /\ (Busy = {} /\ issued > 0) => bucket = one.bucket

C29_Witness ==
  /\ resp.kind = "get" /\ resp.seq = 2 /\ ~resp.alone /\ ~resp.hit
  /\ resp.status = 200 /\ resp.changed /\ resp.puts = 1
  /\ Busy = {} /\ Cardinality(DOMAIN bucket) = 2

(***************************************************************************)
(* Reads of one size in every fit mode                                     *)
(***************************************************************************)
FitShapes ==
  {[caller |-> "u1", id |-> Uuid(1), ext |-> "png",
    query |-> Query(Num(2), Num(3), Num(100), fit, pos, FALSE)] :
     fit \in FitEnum, pos \in {"center", "rt"}}

ReadFit ==
  \/ \E s \in Slots, x \in FitShapes :
        issued < MaxReads /\ GetImageCheck(s, x.caller, x.id, x.ext, x.query)
  \/ \E s \in Slots : GetImageLookup(s)
  \/ \E s \in Slots : GetImageBest(s)
  \/ \E s \in Slots : GetImageDerive(s)
  \/ \E s \in Slots : GetImageUpload(s)

NextFit == ReadFit

SpecFit == InitAlias /\ [][NextFit]_vars

\* the resize operations queued on an image
Resizes(img) == SelectSeq(img.queue, LAMBDA op : op.op = "resize")

\* C28: a resize is given the position asked for exactly when the fit is
\* cover or contain, and the background asked for exactly when the fit is
\* contain.
C28_PositionAndBackgroundByFit ==
  (resp.kind = "get" /\ resp.coerced /\ Len(Resizes(resp.img)) > 0) =>
    \E op \in {Resizes(resp.img)[1]} :
      /\ op.position # "" <=> resp.query.fit.v \in {"cover", "contain"}
      /\ op.position # "" => op.position = getFullPositionName(resp.query.pos.v)
      /\ op.background # "" <=> resp.query.fit.v = "contain"
      /\ op.background # "" => op.background = resp.query.bg.v

(***************************************************************************)
(* Properties of the stored content                                        *)
(***************************************************************************)
\* reads of one size that differ in the encoder options alone
OptionShapes ==
  {[caller |-> "u1", id |-> Uuid(1), ext |-> "png",
    query |-> Query(w, Num(3), Num(50), "cover", "center", progressive)] :
     w \in {Num(2), Num(8)}, progressive \in BOOLEAN}

InitOptions ==
  /\ InitRead
  /\ ~cache[Uuid(1)].public
  /\ Cardinality(DOMAIN bucket) = 1

ReadOptions ==
  \/ \E s \in Slots, x \in OptionShapes :
        issued < MaxReads /\ GetImageCheck(s, x.caller, x.id, x.ext, x.query)
  \/ \E s \in Slots : GetImageLookup(s)
  \/ \E s \in Slots : GetImageBest(s)
  \/ \E s \in Slots : GetImageDerive(s)
  \/ \E s \in Slots : GetImageUpload(s)

NextOptions == ReadOptions

SpecOptions == InitOptions /\ [][NextOptions]_vars

C11_ForcedReingestSucceeds ==
  (/\ resp.kind = "post" /\ resp.url # NoUrl /\ resp.force /\ resp.alone
   /\ resp.live /\ resp.puts = 1) =>
    /\ resp.status = 201
    /\ resp.body.id = resp.rec.id
    /\ resp.rec.id \in DOMAIN cache

\* C16: every POST of an inline image answered 201 has, in the step that
\* answers, created an entry under an id the table did not hold, whose
\* original blob it has put: n such answers make n ids and n entries.
C16_InlineIngestIsNew ==
  [][(/\ resp' # resp /\ resp'.kind = "post" /\ resp'.url = NoUrl
      /\ resp'.status = 201) =>
       /\ resp'.body.id \notin DOMAIN cache
       /\ resp'.body.id \in DOMAIN cache'
       /\ DOMAIN cache' = DOMAIN cache \cup {resp'.body.id}
       /\ cache'[resp'.body.id].original_key \in DOMAIN bucket'
       /\ resp'.puts = 1 /\ resp'.creates = 1]_vars

C16_Witness ==
  /\ resp.kind = "post" /\ resp.url = NoUrl /\ resp.status = 201
  /\ resp.inline = SeedBuffer
  /\ Cardinality({i \in DOMAIN cache : cache[i].url = NoUrl
                                       /\ bucket[cache[i].original_key] = SeedBuffer}) >= 2

\* C17: a POST whose fetch is answered non-2xx ends with the upstream status,
\* a POST whose bytes (fetched or inline) are no image ends with 400; either
\* has fetched at most once (once when by url), put no blob and created no
\* entry.
C17_FailedIngestChangesNothing ==
  (resp.kind = "post") =>
    /\ (resp.fetches = 1 /\ ~resp.fetched.ok) =>
         /\ resp.status = resp.fetched.status
         /\ resp.puts = 0 /\ resp.creates = 0
    /\ (resp.fetches = 1 /\ resp.fetched.ok /\ resp.fetched.data = NotAnImage) =>
         /\ resp.status = 400
         /\ resp.puts = 0 /\ resp.creates = 0
    /\ (resp.inline \in {NotAnImage, NotBase64}) =>
         /\ resp.status = 400
         /\ resp.fetches = 0 /\ resp.puts = 0 /\ resp.creates = 0
    /\ resp.fetches <= 1

(***************************************************************************)
(* Properties of the deletes                                               *)
(***************************************************************************)
\* C13: a DELETE by the internal principal of an image that a user owns,
\* run with no other request in flight, is answered 200, and afterwards the
\* image has no CacheEntry and its owner has no blob of it.
C13_InternalDeleteSucceeds ==
  (/\ resp.kind = "delete" /\ resp.caller = Internal /\ resp.alone
   /\ resp.rec # NoEntry /\ resp.rec.user \in Users /\ Busy = {}) =>
    /\ resp.status = 200
    /\ resp.id \notin DOMAIN cache
    /\ listImageKeysById(resp.rec.user, resp.id) = {}

\* C14: the step in which a DELETE is answered 404 changes neither the table
\* nor the bucket, and the request has changed neither before.
C14_NotFoundDeletesNothing ==
  [][(resp' # resp /\ resp'.kind = "delete" /\ resp'.status = 404) =>
       (cache' = cache /\ bucket' = bucket /\ resp'.pc = "done"
        /\ resp'.seq = issued + 1)]_vars

C14_Witness ==
  /\ resp.kind = "delete" /\ resp.status = 404
  /\ resp.caller = "u2"
  /\ resp.rec # NoEntry /\ resp.rec.user = "u1"
  /\ resp.id \in DOMAIN cache
  /\ cache[resp.id].original_key \in DOMAIN bucket

====
